---- MODULE Spec2Model ----
(***************************************************************************)
(* Model of the data-chatbot backend: the in-memory session store of       *)
(* AuthService, the auth routes, and the natural-language query pipeline   *)
(* of routes/chat.py with the services it calls.                           *)
(*                                                                         *)
(* Requests are handled by an asyncio event loop: code between two awaits  *)
(* runs atomically, and every await of an outbound HTTP call is a point    *)
(* where other requests may run.  One action of the model is one such      *)
(* atomic segment.                                                         *)
(***************************************************************************)
EXTENDS Integers, Sequences, FiniteSets, TLC

(***************************************************************************)
(* Bounds of the model.                                                    *)
(***************************************************************************)
\* the clock is observed every ClockStep hours, up to MaxTime hours
ClockStep == 12
MaxTime == 36
\* requests received over a run
MaxRequests == 3
\* the request slots: requests in flight at the same time
Procs == {"r1", "r2"}

(***************************************************************************)
(* Program constants.                                                      *)
(***************************************************************************)
\* timedelta(hours=24)
SessionTTL == 24

(***************************************************************************)
(* Optional values: None is the empty tuple, a value x is <<x>>.           *)
(***************************************************************************)
None == <<>>
Some(x) == <<x>>
IsNone(o) == o = <<>>
Get(o) == o[1]

(***************************************************************************)
(* Strings.  Python's str operations, on TLC strings.                      *)
(***************************************************************************)
Char(s, i) == SubSeq(s, i, i)

UpperChars == <<"A","B","C","D","E","F","G","H","I","J","K","L","M",
                "N","O","P","Q","R","S","T","U","V","W","X","Y","Z">>
LowerChars == <<"a","b","c","d","e","f","g","h","i","j","k","l","m",
                "n","o","p","q","r","s","t","u","v","w","x","y","z">>
Whitespace == {" ", "\n", "\t", "\r"}

LowerOf == [c \in { UpperChars[i] : i \in 1..26 } |->
               LowerChars[CHOOSE i \in 1..26 : UpperChars[i] = c]]
UpperOf == [c \in { LowerChars[i] : i \in 1..26 } |->
               UpperChars[CHOOSE i \in 1..26 : LowerChars[i] = c]]

\* str.lower() of one character
LowerChar(c) == IF c \in DOMAIN LowerOf THEN LowerOf[c] ELSE c
\* str.upper() of one character
UpperChar(c) == IF c \in DOMAIN UpperOf THEN UpperOf[c] ELSE c

RECURSIVE Lower(_)
Lower(s) == IF Len(s) = 0 THEN "" ELSE LowerChar(Char(s, 1)) \o Lower(Tail(s))
RECURSIVE Upper(_)
Upper(s) == IF Len(s) = 0 THEN "" ELSE UpperChar(Char(s, 1)) \o Upper(Tail(s))

\* str.lstrip(), str.rstrip(), str.strip()
RECURSIVE LStrip(_)
LStrip(s) ==
    IF Len(s) > 0 /\ Char(s, 1) \in Whitespace THEN LStrip(Tail(s)) ELSE s
RECURSIVE RStrip(_)
RStrip(s) ==
    IF Len(s) > 0 /\ Char(s, Len(s)) \in Whitespace
    THEN RStrip(SubSeq(s, 1, Len(s) - 1))
    ELSE s
Strip(s) == RStrip(LStrip(s))

\* str.startswith(prefix)
StartsWith(s, prefix) ==
    Len(prefix) <= Len(s) /\ SubSeq(s, 1, Len(prefix)) = prefix

\* str.find(sub, start) with 0-based positions; -1 when not found
Find(s, sub, start) ==
    LET hits == { i \in start..(Len(s) - Len(sub)) :
                      SubSeq(s, i + 1, i + Len(sub)) = sub }
    IN  IF hits = {} THEN -1 ELSE CHOOSE i \in hits : \A j \in hits : i <= j

\* sub in s
Contains(s, sub) ==
    \E i \in 0..(Len(s) - Len(sub)) : SubSeq(s, i + 1, i + Len(sub)) = sub

\* s[start:] and s[start:end] for 0 <= start, end (an end past the string is
\* the end of the string)
SliceFrom(s, start) == SubSeq(s, start + 1, Len(s))
Slice(s, start, end) == SubSeq(s, start + 1, IF end > Len(s) THEN Len(s) ELSE end)

\* str.rfind(sub) with 0-based positions; -1 when not found
RFind(s, sub) ==
    LET hits == { i \in 0..(Len(s) - Len(sub)) :
                      SubSeq(s, i + 1, i + Len(sub)) = sub }
    IN  IF hits = {} THEN -1 ELSE CHOOSE i \in hits : \A j \in hits : i >= j

\* str.split(sep) for a non-empty separator: the pieces, in order
RECURSIVE Split(_, _)
Split(s, sep) ==
    LET i == Find(s, sep, 0) IN
    IF i = -1 THEN <<s>>
    ELSE <<Slice(s, 0, i)>> \o Split(SliceFrom(s, i + Len(sep)), sep)

\* sep.join(parts)
RECURSIVE Join(_, _)
Join(parts, sep) ==
    IF Len(parts) = 0 THEN ""
    ELSE IF Len(parts) = 1 THEN parts[1]
    ELSE parts[1] \o sep \o Join(Tail(parts), sep)

\* str.split(): the maximal runs of non-whitespace characters, in order
RECURSIVE Words(_)
Words(s) ==
    LET t == LStrip(s)
        ends == { i \in 1..Len(t) : Char(t, i) \in Whitespace }
        e == IF ends = {} THEN Len(t) + 1
             ELSE CHOOSE i \in ends : \A j \in ends : i <= j
    IN  IF Len(t) = 0 THEN <<>>
        ELSE <<SubSeq(t, 1, e - 1)>> \o Words(SubSeq(t, e, Len(t)))

Digits == <<"0","1","2","3","4","5","6","7","8","9">>
IsDigit(c) == \E i \in 1..10 : Digits[i] = c
DigitValue(c) == (CHOOSE i \in 1..10 : Digits[i] = c) - 1

\* int(s) for a string of decimal digits with optional blanks around it;
\* None stands for ValueError
RECURSIVE DigitsValue(_, _)
DigitsValue(s, acc) ==
    IF Len(s) = 0 THEN acc
    ELSE DigitsValue(Tail(s), 10 * acc + DigitValue(Char(s, 1)))
ParseInt(s) ==
    LET t == Strip(s) IN
    IF Len(t) > 0 /\ \A i \in 1..Len(t) : IsDigit(Char(t, i))
    THEN Some(DigitsValue(t, 0))
    ELSE None

(***************************************************************************)
(* OpenAIService: the reply parser, the row estimate, the safety check     *)
(***************************************************************************)
SQLQuery(query, explanation, estimated_rows) ==
    [query |-> query, explanation |-> explanation, estimated_rows |-> estimated_rows]

\* the fallback of _parse_sql_response: the lines after a "SQL:" line, up to
\* an "EXPLANATION:" line
RECURSIVE sql_section(_, _)
sql_section(lines, in_sql) ==
    IF Len(lines) = 0 THEN <<>>
    ELSE LET line == Upper(Strip(lines[1])) IN
         IF StartsWith(line, "SQL:") THEN sql_section(Tail(lines), TRUE)
         ELSE IF StartsWith(line, "EXPLANATION:") THEN <<>>
         ELSE IF in_sql THEN <<lines[1]>> \o sql_section(Tail(lines), in_sql)
         ELSE sql_section(Tail(lines), in_sql)

\* the backquote cannot be written in a string of this module: "~" stands for
\* it, so Fence is the three backquotes that open and close a fenced block
Fence == "~~~"

\* _parse_sql_response(content): <<sql_query, explanation>>
_parse_sql_response(content) ==
    LET sql_start == Find(content, Fence \o "sql", 0)
        sql_end == Find(content, Fence, sql_start + 6)
        sql_query ==
            IF sql_start # -1 /\ sql_end # -1
            THEN Strip(Slice(content, sql_start + 6, sql_end))
            ELSE Strip(Join(sql_section(Split(content, "\n"), FALSE), "\n"))
        explanation_start == Find(content, "EXPLANATION:", 0)
        explanation ==
            IF explanation_start # -1
            THEN Strip(SliceFrom(content, explanation_start + 12))
            ELSE "SQL query generated successfully"
    IN  <<sql_query, explanation>>

\* _estimate_result_size(sql_query)
_estimate_result_size(sql_query) ==
    LET query_lower == Lower(sql_query) IN
    IF Contains(query_lower, "count(") /\ ~Contains(query_lower, "group by") THEN 1
    ELSE IF Contains(query_lower, "group by") THEN 50
    ELSE IF Contains(query_lower, "limit")
    THEN LET limit_pos == RFind(query_lower, "limit")
             parts == Words(SliceFrom(sql_query, limit_pos))
             n == IF Len(parts) < 2 THEN None
                  ELSE ParseInt(Split(parts[2], ";")[1])
         IN  IF IsNone(n) THEN 100 ELSE Get(n)
    ELSE 1000

dangerous_keywords ==
    <<"drop ", "delete ", "update ", "insert ", "alter ",
      "create ", "truncate ", "grant ", "revoke ">>

\* the keyword is found and no carve-out makes the loop skip it
keyword_detected(query_lower, keyword) ==
    /\ Contains(query_lower, keyword)
    /\ ~(Strip(keyword) = "create"
           /\ (Contains(query_lower, "created_at") \/ Contains(query_lower, "create_")))
    /\ ~(Strip(keyword) = "update"
           /\ (Contains(query_lower, "updated_at") \/ Contains(query_lower, "update_")))
    /\ ~(Strip(keyword) = "delete"
           /\ (Contains(query_lower, "deleted_at") \/ Contains(query_lower, "delete_")))

\* validate_sql_safety(sql_query): <<is_safe, message>>
validate_sql_safety_denylist_only(sql_query) ==
    LET query_lower == Strip(Lower(sql_query))
        found == { i \in 1..Len(dangerous_keywords) :
                      keyword_detected(query_lower, dangerous_keywords[i]) }
    IN  IF found # {}
        THEN LET first == CHOOSE i \in found : \A j \in found : i <= j IN
             <<FALSE, "Dangerous SQL keyword detected: "
                         \o Strip(dangerous_keywords[first])>>
        ELSE <<TRUE, "Query is safe">>

validate_sql_safety(sql_query) ==
    LET query_lower == Strip(Lower(sql_query))
        found == { i \in 1..Len(dangerous_keywords) :
                      keyword_detected(query_lower, dangerous_keywords[i]) }
    IN  IF found # {}
        THEN LET first == CHOOSE i \in found : \A j \in found : i <= j IN
             <<FALSE, "Dangerous SQL keyword detected: "
                         \o Strip(dangerous_keywords[first])>>
        ELSE IF ~StartsWith(query_lower, "select")
        THEN <<FALSE, "Only SELECT queries are allowed">>
        ELSE <<TRUE, "Query is safe">>

(***************************************************************************)
(* Result values.  A value of a result cell is dynamically typed: null, a  *)
(* bool, a number, a string, or an object json cannot serialize.           *)
(***************************************************************************)
VNull == [t |-> "null", n |-> 0, s |-> ""]
VBool(b) == [t |-> "bool", n |-> IF b THEN 1 ELSE 0, s |-> ""]
VInt(n) == [t |-> "int", n |-> n, s |-> ""]
VStr(s) == [t |-> "str", n |-> 0, s |-> s]
\* an object that json.dumps rejects, with its str()
VOpaque(s) == [t |-> "opaque", n |-> 0, s |-> s]

\* str(value)
PyStr(v) ==
    CASE v.t = "null" -> "None"
      [] v.t = "bool" -> IF v.n = 1 THEN "True" ELSE "False"
      [] v.t = "int" -> ToString(v.n)
      [] OTHER -> v.s

\* float(value) for a value that is not None; None stands for TypeError or
\* ValueError (strings are numeric when they are decimal digits)
PyFloat(v) ==
    CASE v.t = "bool" -> Some(v.n)
      [] v.t = "int" -> Some(v.n)
      [] v.t = "str" -> ParseInt(v.s)
      [] OTHER -> None

\* isinstance(value, str); isinstance(value, (int, float)) and not bool
IsStrValue(v) == v.t = "str"
IsNumberValue(v) == v.t = "int"

\* row.get(col, default)
RowGet(row, col, default) == IF col \in DOMAIN row THEN row[col] ELSE default

\* dict(zip(columns, values))
Zip(columns, values) ==
    LET n == IF Len(columns) < Len(values) THEN Len(columns) ELSE Len(values)
        last(c) == CHOOSE i \in 1..n : columns[i] = c /\ \A j \in 1..n : columns[j] = c => j <= i
    IN  [c \in { columns[i] : i \in 1..n } |-> values[last(c)]]

\* clean_data_for_serialization / clean_data_for_json on one scalar
clean_scalar(v) == IF v.t = "opaque" THEN VStr(v.s) ELSE v
\* ... on a row mapping, on a list of rows, on a list of strings
clean_row(row) == [c \in DOMAIN row |-> clean_scalar(row[c])]
clean_rows(rows) == [i \in 1..Len(rows) |-> clean_row(rows[i])]
clean_columns(columns) == columns

QueryResult(data, columns, row_count, execution_time_ms) ==
    [data |-> data, columns |-> columns, row_count |-> row_count,
     execution_time_ms |-> execution_time_ms]

(***************************************************************************)
(* VisualizationService                                                    *)
(***************************************************************************)
max_categories == 15

\* the first column whose value in the first row is a string (wanted "str")
\* or a number (wanted "int"); None when there is none
first_column(columns, data, wanted) ==
    LET ok == { i \in 1..Len(columns) :
                  Len(data) > 0 /\ columns[i] \in DOMAIN data[1]
                      /\ IF wanted = "str" THEN IsStrValue(data[1][columns[i]])
                         ELSE IsNumberValue(data[1][columns[i]]) }
    IN  IF ok = {} THEN None
        ELSE Some(columns[CHOOSE i \in ok : \A j \in ok : i <= j])

\* the columns _create_bar_data picks: <<text_col, numeric_col>>
bar_columns(columns, data) ==
    LET t == first_column(columns, data, "str")
        n == first_column(columns, data, "int")
    IN  << IF ~IsNone(t) /\ Get(t) # "" THEN Get(t)
           ELSE IF Len(columns) > 0 THEN columns[1] ELSE "category",
           IF ~IsNone(n) /\ Get(n) # "" THEN Get(n)
           ELSE IF Len(columns) > 1 THEN columns[2]
           ELSE IF Len(columns) > 0 THEN columns[1] ELSE "value" >>

\* what one row adds to its category: float(value), 0 for None, 1 when the
\* value does not convert
bar_value(row, numeric_col) ==
    LET value == RowGet(row, numeric_col, VInt(0)) IN
    IF value.t = "null" THEN 0
    ELSE IF IsNone(PyFloat(value)) THEN 1 ELSE Get(PyFloat(value))

\* the aggregation loop with = in place of +=: the last row of a category
\* replaces what the earlier ones added
RECURSIVE aggregate_last_wins(_, _, _, _)
aggregate_last_wins(data, text_col, numeric_col, aggregated) ==
    IF Len(data) = 0 THEN aggregated
    ELSE LET row == data[1]
             key == PyStr(RowGet(row, text_col, VStr("Unknown")))
             value == bar_value(row, numeric_col)
             at == { i \in 1..Len(aggregated) : aggregated[i][1] = key }
             next == IF at = {} THEN Append(aggregated, <<key, value>>)
                     ELSE [aggregated EXCEPT ![CHOOSE i \in at : TRUE] = <<key, value>>]
         IN  aggregate_last_wins(Tail(data), text_col, numeric_col, next)

\* the aggregation loop: the <<key, value>> pairs in order of first insertion
RECURSIVE aggregate(_, _, _, _)
aggregate(data, text_col, numeric_col, aggregated) ==
    IF Len(data) = 0 THEN aggregated
    ELSE LET row == data[1]
             key == PyStr(RowGet(row, text_col, VStr("Unknown")))
             value == bar_value(row, numeric_col)
             at == { i \in 1..Len(aggregated) : aggregated[i][1] = key }
             next == IF at = {} THEN Append(aggregated, <<key, value>>)
                     ELSE [aggregated EXCEPT ![CHOOSE i \in at : TRUE] =
                              <<key, aggregated[CHOOSE i \in at : TRUE][2] + value>>]
         IN  aggregate(Tail(data), text_col, numeric_col, next)

\* sorted(items, key=value, reverse=True): stable, highest value first
RECURSIVE sorted_by_value(_)
sorted_by_value(items) ==
    IF Len(items) = 0 THEN <<>>
    ELSE LET best == { i \in 1..Len(items) : \A j \in 1..Len(items) :
                          items[j][2] <= items[i][2] }
             k == CHOOSE i \in best : \A j \in best : i <= j
         IN  <<items[k]>> \o sorted_by_value(
                 [i \in 1..(Len(items) - 1) |-> IF i < k THEN items[i] ELSE items[i + 1]])

\* the category cap without the sort: the first categories met are kept
limit_categories_unsorted(aggregated) ==
    IF Len(aggregated) > max_categories
    THEN SubSeq(aggregated, 1, max_categories)
    ELSE aggregated

\* the category cap
limit_categories(aggregated) ==
    IF Len(aggregated) > max_categories
    THEN SubSeq(sorted_by_value(aggregated), 1, max_categories)
    ELSE aggregated

RECURSIVE SumSeq(_)
SumSeq(xs) == IF Len(xs) = 0 THEN 0 ELSE xs[1] + SumSeq(Tail(xs))

\* the payload of a chart: every chart type fills the fields it has
ChartPayload(labels, values, x_values, y_values, x_label, y_label, total) ==
    [labels |-> labels, values |-> values, x_values |-> x_values,
     y_values |-> y_values, x_label |-> x_label, y_label |-> y_label,
     total |-> total]

_create_bar_data(query_result) ==
    LET cols == bar_columns(query_result.columns, query_result.data)
        aggregated == limit_categories(
                          aggregate(query_result.data, cols[1], cols[2], <<>>))
    IN  ChartPayload([i \in 1..Len(aggregated) |-> aggregated[i][1]],
                     [i \in 1..Len(aggregated) |-> aggregated[i][2]],
                     <<>>, <<>>, cols[1], cols[2], None)

_create_pie_data(query_result) ==
    LET bar_data == _create_bar_data(query_result) IN
    ChartPayload(bar_data.labels, bar_data.values, <<>>, <<>>, "", "",
                 Some(SumSeq(bar_data.values)))

\* the columns _create_scatter_data picks: <<x_col, y_col>>
scatter_columns(columns, data) ==
    LET numeric == { i \in 1..Len(columns) :
                        Len(data) > 0 /\ columns[i] \in DOMAIN data[1]
                            /\ IsNumberValue(data[1][columns[i]]) }
        first == CHOOSE i \in numeric : \A j \in numeric : i <= j
        rest == numeric \ {first}
        second == CHOOSE i \in rest : \A j \in rest : i <= j
        numeric_cols ==
            IF Cardinality(numeric) >= 2 THEN <<columns[first], columns[second]>>
            ELSE IF Len(columns) >= 2 THEN SubSeq(columns, 1, 2)
            ELSE columns \o <<"value">>
    IN  << numeric_cols[1],
           IF Len(numeric_cols) > 1 THEN numeric_cols[2] ELSE numeric_cols[1] >>

\* the <<x_val, y_val>> of one row: one failed conversion zeroes both
scatter_point(row, x_col, y_col) ==
    LET x_val == RowGet(row, x_col, VInt(0))
        y_val == RowGet(row, y_col, VInt(0))
        x == IF x_val.t = "null" THEN Some(0) ELSE PyFloat(x_val)
        y == IF y_val.t = "null" THEN Some(0) ELSE PyFloat(y_val)
    IN  IF IsNone(x) \/ IsNone(y) THEN <<0, 0>> ELSE <<Get(x), Get(y)>>

_create_scatter_data(query_result) ==
    LET cols == scatter_columns(query_result.columns, query_result.data)
        data == query_result.data
    IN  ChartPayload(<<>>, <<>>,
                     [i \in 1..Len(data) |-> scatter_point(data[i], cols[1], cols[2])[1]],
                     [i \in 1..Len(data) |-> scatter_point(data[i], cols[1], cols[2])[2]],
                     cols[1], cols[2], None)

\* str.title() of a chart type name (lower-case letters)
Title(s) == IF Len(s) = 0 THEN "" ELSE UpperChar(Char(s, 1)) \o Tail(s)

\* _create_chart_data(query_result, chart_type)
_create_chart_data(query_result, chart_type) ==
    [chart_type |-> chart_type,
     data |-> CASE chart_type = "bar" -> _create_bar_data(query_result)
                [] chart_type = "pie" -> _create_pie_data(query_result)
                [] chart_type = "scatter" -> _create_scatter_data(query_result)
                [] OTHER -> _create_bar_data(query_result),
     title |-> Title(chart_type) \o " Chart",
     description |-> "Showing " \o ToString(Len(query_result.data)) \o " records"]

\* create_visualization(query_result, suggested_chart_type): the chart or None
create_visualization(query_result, suggested_chart_type) ==
    IF Len(query_result.data) = 0 \/ IsNone(suggested_chart_type)
    THEN None
    ELSE Some(_create_chart_data(query_result, Get(suggested_chart_type)))


(***************************************************************************)
(* Upstream answers.  An awaited HTTP call either raises (a timeout, an    *)
(* unreachable host) or answers with a status, a body text and, when the   *)
(* body is JSON, its content.  A function returns a value or raises an     *)
(* exception with a message.                                               *)
(***************************************************************************)
Answer(raised, status_code, text, json) ==
    [raised |-> raised, status_code |-> status_code, text |-> text, json |-> json]

Return(value) == [ok |-> TRUE, error |-> "", value |-> <<value>>]
Raise(message) == [ok |-> FALSE, error |-> message, value |-> <<>>]
Value(r) == r.value[1]

\* str(e) of the httpx exception of an unreachable BI platform
NetworkErrorText == "All connection attempts failed"
\* the body of an error response of the BI platform
UpstreamBody == "relation orders does not exist"
\* str(e) of the exception of a failed completion call
CompletionErrorText == "Connection error."

(***************************************************************************)
(* DatabaseService                                                         *)
(***************************************************************************)
\* get_database_schema up to its second await: the database_info, or the
\* exception the function raises
get_database_info(a) ==
    IF ~IsNone(a.raised)
    THEN Raise("Failed to retrieve database schema: " \o Get(a.raised))
    ELSE IF a.status_code # 200
    THEN Raise("Failed to retrieve database schema: Failed to get database info: "
                  \o ToString(a.status_code))
    ELSE Return(a.json)

\* _process_table_info: the table_info, or None when processing the fields
\* raises
_process_table_info(table) ==
    IF ~table.fields_ok THEN None
    ELSE Some([name |-> table.name,
               display_name |-> table.display_name,
               row_count |-> table.rows,
               columns |-> [i \in 1..Len(table.fields) |->
                               [name |-> table.fields[i].name,
                                database_type |-> table.fields[i].database_type]],
               primary_keys |-> SelectSeq(
                   [i \in 1..Len(table.fields) |->
                       IF table.fields[i].semantic_type = "type/PK"
                       THEN table.fields[i].name ELSE ""],
                   LAMBDA n : n # ""),
               foreign_keys |-> SelectSeq(
                   [i \in 1..Len(table.fields) |->
                       IF table.fields[i].semantic_type = "type/FK"
                       THEN table.fields[i].name ELSE ""],
                   LAMBDA n : n # "")])

\* the loop over metadata["tables"]: the table_info of the tables kept
RECURSIVE process_tables(_)
process_tables(tables) ==
    IF Len(tables) = 0 THEN <<>>
    ELSE LET table_info == _process_table_info(tables[1]) IN
         (IF IsNone(table_info) THEN <<>> ELSE <<Get(table_info)>>)
             \o process_tables(Tail(tables))

\* get_database_schema after its second await: the schema_info, or the
\* exception the function raises
get_database_schema(database_info, a) ==
    IF ~IsNone(a.raised)
    THEN Raise("Failed to retrieve database schema: " \o Get(a.raised))
    ELSE IF a.status_code # 200
    THEN Raise("Failed to retrieve database schema: Failed to get tables: "
                  \o ToString(a.status_code))
    ELSE Return([database_name |-> database_info.name,
                 database_type |-> database_info.engine,
                 tables |-> process_tables(a.json.tables)])

\* the lines build_schema_context writes for one table
table_context(table) ==
    <<"\n" \o table.name \o " (" \o table.display_name \o ") - "
          \o ToString(table.row_count) \o " rows:">>
    \o [i \in 1..Len(table.columns) |->
           "  - " \o table.columns[i].name \o ": "
               \o table.columns[i].database_type \o " NULL"]
    \o (IF Len(table.primary_keys) > 0
        THEN <<"  Primary Keys: " \o Join(table.primary_keys, ", ")>> ELSE <<>>)
    \o (IF Len(table.foreign_keys) > 0
        THEN <<"  Foreign Keys: " \o Join(table.foreign_keys, ", ")>> ELSE <<>>)

RECURSIVE tables_context(_)
tables_context(tables) ==
    IF Len(tables) = 0 THEN <<>>
    ELSE table_context(tables[1]) \o tables_context(Tail(tables))

\* build_schema_context(schema_info)
build_schema_context(schema_info) ==
    Join(<<"Database: " \o schema_info.database_name
              \o " (" \o schema_info.database_type \o ")",
           "\nTables and Schema:">>
         \o tables_context(schema_info.tables), "\n")

\* the query get_sample_data sends
sample_query(table_name, limit) ==
    "SELECT * FROM " \o table_name \o " LIMIT " \o ToString(limit)

\* get_sample_data after its await: the rows, empty on any failure
get_sample_data(a) ==
    IF ~IsNone(a.raised) \/ a.status_code # 200 THEN <<>>
    ELSE LET columns == [i \in 1..Len(a.json.cols) |-> a.json.cols[i].name] IN
         [i \in 1..Len(a.json.rows) |-> Zip(columns, a.json.rows[i])]

\* col.get("display_name") or col.get("name", "unknown")
column_name(col) == IF col.display_name # "" THEN col.display_name ELSE col.name

\* the row loop of execute_sql_query: the row mappings and the column names
\* (rows without column metadata are keyed column_0, column_1, ...)
RECURSIVE rows_to_dicts(_, _, _)
rows_to_dicts(rows, columns, result_data) ==
    IF Len(rows) = 0 THEN [data |-> result_data, columns |-> columns]
    ELSE IF Len(columns) > 0
    THEN rows_to_dicts(Tail(rows), columns,
                       Append(result_data, Zip(columns, rows[1])))
    ELSE LET names == [i \in 1..Len(rows[1]) |-> "column_" \o ToString(i - 1)] IN
         rows_to_dicts(Tail(rows), names, Append(result_data, Zip(names, rows[1])))

\* the except clause of execute_sql_query: the message of the exception raised
execute_except(message) ==
    IF Contains(message, "SQL Error:") \/ Contains(message, "HTTP")
    THEN message
    ELSE "Database query failed: " \o Slice(message, 0, 200) \o "..."

\* what the try body of execute_sql_query raises on the answer (None: goes on)
execute_raises(a) ==
    IF ~IsNone(a.raised) THEN a.raised
    ELSE IF a.status_code \notin {200, 202}
    THEN Some("HTTP " \o ToString(a.status_code) \o ": " \o a.text)
    ELSE IF a.json.status = "failed"
    THEN Some("SQL Error: " \o (IF IsNone(a.json.error) THEN "Unknown SQL error"
                                ELSE Get(a.json.error)))
    ELSE IF ~IsNone(a.json.error) /\ Get(a.json.error) # ""
    THEN Some("SQL Error: " \o Get(a.json.error))
    ELSE None

\* execute_sql_query after its await: the clean_result, or the exception
execute_sql_query(a) ==
    IF ~IsNone(execute_raises(a))
    THEN Raise(execute_except(Get(execute_raises(a))))
    ELSE LET columns == [i \in 1..Len(a.json.cols) |-> column_name(a.json.cols[i])]
             parsed == rows_to_dicts(a.json.rows, columns, <<>>)
         IN  Return([data |-> clean_rows(parsed.data),
                     columns |-> clean_columns(parsed.columns),
                     row_count |-> Len(parsed.data),
                     execution_time_ms |-> a.json.running_time])

(***************************************************************************)
(* OpenAIService: the two completion calls of the pipeline.  A reply is    *)
(* the content of the first choice, or the exception the client raises.    *)
(***************************************************************************)
Reply(raised, content) == [raised |-> raised, content |-> content]

\* generate_sql_query after the completion call: the SQLQuery or the exception
generate_sql_query(reply) ==
    IF ~IsNone(reply.raised)
    THEN Raise("Failed to generate SQL query: " \o Get(reply.raised))
    ELSE LET parsed == _parse_sql_response(Strip(reply.content)) IN
         Return(SQLQuery(parsed[1], parsed[2], Some(_estimate_result_size(parsed[1]))))

\* the values of ChartType
ChartType == {"bar", "line", "pie", "scatter", "histogram", "area"}

\* suggest_visualization after the completion call: a chart type or None
suggest_visualization(reply) ==
    IF ~IsNone(reply.raised) THEN None
    ELSE LET suggestion == Lower(Strip(reply.content)) IN
         IF suggestion = "table" THEN None
         ELSE IF suggestion \in ChartType THEN Some(suggestion)
         ELSE None

(***************************************************************************)
(* The session store (AuthService).                                        *)
(***************************************************************************)
VARIABLES
    now,         \* datetime.utcnow(), in hours
    sessions,    \* AuthService.sessions: token -> SessionData
    issued,      \* number of tokens drawn from secrets.token_urlsafe so far
    req,         \* the request in flight in each slot
    out,         \* the request completed by the last step, with its response
    started,     \* number of requests received so far
    expiredSeen, \* history: tokens validate_session has found expired
    loggedOut,   \* history: tokens for which logout has returned True
    blocked      \* the request whose synchronous call holds the event loop

vars == <<now, sessions, issued, req, out, started, expiredSeen, loggedOut, blocked>>

\* SessionData(username, metabase_session_id, user_id, expires_at)
SessionData(username, metabase_session_id, user_id, expires_at) ==
    [username |-> username, metabase_session_id |-> metabase_session_id,
     user_id |-> user_id, expires_at |-> expires_at]

EmptyStore == [t \in {} |-> SessionData("", "", 0, 0)]
Remove(store, token) == [t \in DOMAIN store \ {token} |-> store[t]]
Put(store, token, sd) == [t \in DOMAIN store \cup {token} |->
                              IF t = token THEN sd ELSE store[t]]

\* secrets.token_urlsafe(32): 256 random bits, so a token never drawn before
\* (the n-th draw is rendered "t<n>")
token_urlsafe(n) == "t" \o ToString(n)
\* the BI platform's session id for the n-th login that reaches it
MetabaseId(n) == "m" \o ToString(n)

(* validate_session: the result and the store it leaves *)
validate_session_keep_expired(store, session_token, t) ==
    IF session_token = "" THEN [result |-> None, store |-> store]
    ELSE IF session_token \notin DOMAIN store THEN [result |-> None, store |-> store]
    ELSE IF t > store[session_token].expires_at
         THEN [result |-> None, store |-> store]
         ELSE [result |-> Some(store[session_token]), store |-> store]

\* (a sliding expiry: a valid access renews the 24 hours)
validate_session_sliding(store, session_token, t) ==
    IF session_token = "" THEN [result |-> None, store |-> store]
    ELSE IF session_token \notin DOMAIN store THEN [result |-> None, store |-> store]
    ELSE IF t > store[session_token].expires_at
         THEN [result |-> None, store |-> Remove(store, session_token)]
         ELSE [result |-> Some(store[session_token]),
               store |-> [store EXCEPT ![session_token].expires_at = t + SessionTTL]]

\* (an unknown token is answered with the session of some entry)
validate_session_any_entry(store, session_token, t) ==
    IF session_token = "" THEN [result |-> None, store |-> store]
    ELSE IF session_token \notin DOMAIN store
         THEN [result |-> IF DOMAIN store = {} THEN None
                          ELSE Some(store[CHOOSE k \in DOMAIN store : TRUE]),
               store |-> store]
    ELSE IF t > store[session_token].expires_at
         THEN [result |-> None, store |-> Remove(store, session_token)]
         ELSE [result |-> Some(store[session_token]), store |-> store]

validate_session(store, session_token, t) ==
    IF session_token = "" THEN [result |-> None, store |-> store]
    ELSE IF session_token \notin DOMAIN store THEN [result |-> None, store |-> store]
    ELSE IF t > store[session_token].expires_at
         THEN [result |-> None, store |-> Remove(store, session_token)]
         ELSE [result |-> Some(store[session_token]), store |-> store]

\* the entries get_active_sessions_count counts
active_sessions(store, t) == { k \in DOMAIN store : store[k].expires_at > t }
get_active_sessions_count(store, t) == Cardinality(active_sessions(store, t))

\* cleanup_expired_sessions: the tokens it removes, and the store it leaves
expired_tokens(store, t) == { k \in DOMAIN store : store[k].expires_at <= t }
cleanup_expired_sessions_strict(store, t) ==
    [k \in { j \in DOMAIN store : store[j].expires_at >= t } |-> store[k]]

cleanup_expired_sessions(store, t) ==
    [k \in DOMAIN store \ expired_tokens(store, t) |-> store[k]]

(***************************************************************************)
(* Requests.  A slot holds a request in flight: its inputs, the locals     *)
(* that live across awaits and what the upstream services answered.  The   *)
(* step that sends the response frees the slot and leaves the request,     *)
(* with its response, in out.                                              *)
(***************************************************************************)
NoRequest ==
    [kind |-> "none", pc |-> "idle",
     token |-> "",        \* the bearer token of the request
     username |-> "",     \* login_request.username
     sd |-> None,         \* session_data / current_user held by the handler
     handle |-> "",       \* metabase_session_id obtained by a login
     post |-> "",         \* what POST /api/session answered (login)
     userget |-> "",      \* what GET /api/user/current answered (login)
     ext |-> "",          \* what DELETE /api/session answered (logout)
     prior |-> FALSE,     \* history: a logout of this token had returned True
     stale |-> FALSE,     \* history: the token was past expires_at at the call
     status |-> 0,        \* HTTP status of the response
     detail |-> "",       \* detail / message of the response
     ret |-> None,        \* logout(): its return value; validate: "valid"
     count |-> 0,         \* /status: active_sessions
     info |-> None,       \* database_info held by get_database_schema
     context |-> "",      \* schema_context
     todo |-> <<>>,       \* the tables still to sample
     sample_data |-> <<>>,  \* sample_data: <<table_name, rows>> pairs
     sql |-> None,        \* sql_query, the SQLQuery generated
     result |-> None,     \* result, the QueryResult
     chat |-> None,       \* the ChatResponse sent
     reply |-> None,      \* history: the reply to the SQL prompt
     suggestion |-> None, \* history: the reply to the visualization prompt
     calls |-> <<>>,      \* history: the upstream calls issued, in order
     accepted |-> {},     \* history: the texts validate_sql_safety found safe
     rejected |-> {},     \* history: the texts validate_sql_safety refused
     failed |-> {},       \* history: the stages that failed
     upstream |-> {}]     \* history: error bodies and exception texts received

Free(p) == req[p].pc = "idle"
\* the event loop runs handlers only while no synchronous call holds it
Running == IsNone(blocked)
\* a new request takes the first free slot (slots are interchangeable)
FirstFree(p) == Free(p) /\ (p = "r2" => ~Free("r1"))
CanStart(p) == Running /\ FirstFree(p) /\ started < MaxRequests

\* the handler of slot p goes on with locals r, awaiting an upstream answer
Await(p, r) == req' = [req EXCEPT ![p] = r] /\ out' = None
\* the handler of slot p sends its response: r with status and detail
Respond(p, r, status, detail) ==
    /\ req' = [req EXCEPT ![p] = NoRequest]
    /\ out' = Some([r EXCEPT !.pc = "done", !.status = status, !.detail = detail])

Done(kind) == ~IsNone(out) /\ Get(out).kind = kind

\* the tokens a caller may present: the empty one, one never issued, issued ones
RequestTokens == {"", "bogus"} \cup { token_urlsafe(n) : n \in 1..issued }

\* Authorization headers: absent, another scheme, or "Bearer <token>"
NoHeader == [present |-> FALSE, scheme |-> "", cred |-> ""]
AuthHeaders ==
    {NoHeader, [present |-> TRUE, scheme |-> "Basic", cred |-> "bogus"]}
    \cup { [present |-> TRUE, scheme |-> "Bearer", cred |-> t] : t \in RequestTokens }

Usernames == {"alice"}

(***************************************************************************)
(* Exceptions are records; HTTPException carries status and detail.        *)
(***************************************************************************)
HTTPException(status, detail) ==
    [type |-> "HTTPException", status |-> status, detail |-> detail]
RequestError == [type |-> "RequestError", status |-> 0, detail |-> ""]
OtherError == [type |-> "Exception", status |-> 0, detail |-> ""]

(***************************************************************************)
(* authenticate_with_metabase                                              *)
(***************************************************************************)
LoginPostOutcomes == {"ok", "no_id", "non200", "network", "bad_json"}
UserGetOutcomes == {"ok", "bad_user", "non200", "network"}

\* what the try body raises on the answer to POST /api/session (None: goes on)
authenticate_post(outcome) ==
    CASE outcome = "network" -> Some(RequestError)
      [] outcome = "non200" -> Some(HTTPException(401, "Invalid Metabase credentials"))
      [] outcome = "bad_json" -> Some(OtherError)
      [] outcome = "no_id" -> Some(HTTPException(500, "Failed to get Metabase session ID"))
      [] OTHER -> None

\* what the try body raises on the answer to GET /api/user/current
authenticate_user_unchecked(outcome) ==
    CASE outcome = "network" -> Some(RequestError)
      [] outcome = "non200" -> None
      [] outcome = "bad_user" -> None
      [] OTHER -> None

authenticate_user(outcome) ==
    CASE outcome = "network" -> Some(RequestError)
      [] outcome = "non200" ->
            Some(HTTPException(500, "Failed to get user information from Metabase"))
      [] outcome = "bad_user" -> Some(OtherError)   \* SessionData(user_id=None) fails
      [] OTHER -> None

\* the except clauses of authenticate_with_metabase: the HTTPException raised
authenticate_except_no_503(exc) ==
    CASE exc.type = "HTTPException" -> exc
      [] OTHER -> HTTPException(500, "Authentication failed due to internal error")

authenticate_except(exc) ==
    CASE exc.type = "RequestError" ->
            HTTPException(503, "Unable to connect to Metabase server")
      [] exc.type = "HTTPException" -> exc
      [] OTHER -> HTTPException(500, "Authentication failed due to internal error")

\* POST /api/auth/login up to the first await
LoginStart(p) ==
    /\ CanStart(p)
    /\ \E u \in Usernames :
        Await(p, [NoRequest EXCEPT !.kind = "login", !.pc = "login_post",
                                   !.username = u])
    /\ started' = started + 1
    /\ UNCHANGED <<blocked, now, sessions, issued, expiredSeen, loggedOut>>

\* the answer to POST /api/session arrives
LoginPost(p) ==
    /\ Running
    /\ req[p].pc = "login_post"
    /\ \E outcome \in LoginPostOutcomes :
        LET raised == authenticate_post(outcome)
            r == [req[p] EXCEPT !.post = outcome]
        IN  IF IsNone(raised)
            THEN Await(p, [r EXCEPT !.pc = "login_user",
                                    !.handle = MetabaseId(started)])
            ELSE LET e == authenticate_except(Get(raised)) IN
                 Respond(p, r, e.status, e.detail)
    /\ UNCHANGED <<blocked, now, sessions, issued, started, expiredSeen, loggedOut>>

\* the answer to GET /api/user/current arrives; on success the session is stored
LoginUser(p) ==
    /\ Running
    /\ req[p].pc = "login_user"
    /\ \E outcome \in UserGetOutcomes :
        LET raised == authenticate_user(outcome)
            r == [req[p] EXCEPT !.userget = outcome]
        IN  IF IsNone(raised)
            THEN LET session_token == token_urlsafe(issued + 1)
                     session_data == SessionData(r.username, r.handle,
                                                 1, now + SessionTTL)
                 IN  /\ sessions' = Put(sessions, session_token, session_data)
                     /\ issued' = issued + 1
                     /\ Respond(p, [r EXCEPT !.token = session_token,
                                             !.sd = Some(session_data)], 200, "")
            ELSE LET e == authenticate_except(Get(raised)) IN
                 /\ Respond(p, r, e.status, e.detail)
                 /\ UNCHANGED <<sessions, issued>>
    /\ UNCHANGED <<blocked, now, started, expiredSeen, loggedOut>>

(***************************************************************************)
(* logout                                                                  *)
(***************************************************************************)
LogoutOutcomes == {"ok", "failed", "throws"}

\* self.sessions.get(session_token)
sessions_get(store, session_token) ==
    IF session_token \in DOMAIN store THEN Some(store[session_token]) ELSE None

\* the except clause of logout: the store it leaves (it returns True)
logout_except(store, session_token) ==
    IF session_token \in DOMAIN store THEN Remove(store, session_token) ELSE store

(* logout after the await of DELETE /api/session: the store it leaves, and  *)
(* the value returned.  A DELETE that raises goes to the except clause; so  *)
(* does "del self.sessions[session_token]" when the entry is gone.          *)
logout_resume_skip_on_error(store, session_token, outcome) ==
    IF outcome = "throws"
    THEN [store |-> store, result |-> TRUE]
    ELSE IF session_token \notin DOMAIN store
         THEN [store |-> logout_except(store, session_token), result |-> TRUE]
         ELSE [store |-> Remove(store, session_token), result |-> TRUE]

logout_resume(store, session_token, outcome) ==
    IF outcome = "throws"
    THEN [store |-> logout_except(store, session_token), result |-> TRUE]
    ELSE IF session_token \notin DOMAIN store
         THEN [store |-> logout_except(store, session_token), result |-> TRUE]
         ELSE [store |-> Remove(store, session_token), result |-> TRUE]

\* POST /api/auth/logout up to the await in AuthService.logout
LogoutStart(p) ==
    /\ CanStart(p)
    /\ \E h \in AuthHeaders :
        LET r0 == [NoRequest EXCEPT !.kind = "logout", !.token = h.cred] IN
        IF ~h.present
        THEN Respond(p, r0, 401, "Missing authorization header")
        ELSE IF h.scheme # "Bearer"
        THEN Respond(p, r0, 401, "Invalid authorization format. Use: Bearer <token>")
        ELSE LET session_data == sessions_get(sessions, h.cred)
                 r1 == [r0 EXCEPT !.prior = h.cred \in loggedOut]
             IN  IF IsNone(session_data)
                 THEN Respond(p, [r1 EXCEPT !.ret = Some(FALSE)], 400, "Logout failed")
                 ELSE Await(p, [r1 EXCEPT !.pc = "logout_delete",
                                          !.sd = session_data])
    /\ started' = started + 1
    /\ UNCHANGED <<blocked, now, sessions, issued, expiredSeen, loggedOut>>

\* the await of DELETE /api/session ends: local cleanup and the response
LogoutResume(p) ==
    /\ Running
    /\ req[p].pc = "logout_delete"
    /\ \E outcome \in LogoutOutcomes :
        LET r == logout_resume(sessions, req[p].token, outcome) IN
        /\ sessions' = r.store
        /\ loggedOut' = IF r.result THEN loggedOut \cup {req[p].token} ELSE loggedOut
        /\ Respond(p, [req[p] EXCEPT !.ext = outcome, !.ret = Some(r.result)],
                   IF r.result THEN 200 ELSE 400,
                   IF r.result THEN "Successfully logged out" ELSE "Logout failed")
    /\ UNCHANGED <<blocked, now, issued, started, expiredSeen>>

(***************************************************************************)
(* validate_session and the routes that only read the store                *)
(***************************************************************************)
\* the entry of the token is past its expires_at
PastExpiry(store, session_token, t) ==
    session_token \in DOMAIN store /\ store[session_token].expires_at < t

\* GET /api/auth/validate: the whole handler (no await)
ValidateRoute(p) ==
    /\ CanStart(p)
    /\ \E h \in AuthHeaders :
        LET r0 == [NoRequest EXCEPT !.kind = "validate", !.token = h.cred] IN
        IF ~h.present \/ h.scheme # "Bearer"
        THEN /\ Respond(p, [r0 EXCEPT !.ret = Some(FALSE)], 200,
                        "Missing or invalid authorization header")
             /\ UNCHANGED <<sessions, expiredSeen>>
        ELSE LET v == validate_session(sessions, h.cred, now) IN
             /\ sessions' = v.store
             /\ expiredSeen' = IF PastExpiry(sessions, h.cred, now)
                               THEN expiredSeen \cup {h.cred} ELSE expiredSeen
             /\ Respond(p, [r0 EXCEPT
                               !.stale = PastExpiry(sessions, h.cred, now)
                                            \/ h.cred \in expiredSeen,
                               !.sd = v.result,
                               !.ret = Some(~IsNone(v.result))],
                        200,
                        IF IsNone(v.result) THEN "Invalid or expired session" ELSE "")
    /\ started' = started + 1
    /\ UNCHANGED <<blocked, now, issued, loggedOut>>

\* GET /api/auth/status: cleanup_expired_sessions, then the count (no await)
StatusRoute(p) ==
    /\ CanStart(p)
    /\ sessions' = cleanup_expired_sessions(sessions, now)
    /\ Respond(p, [NoRequest EXCEPT !.kind = "status",
                      !.count = get_active_sessions_count(sessions', now)],
               200, "operational")
    /\ started' = started + 1
    /\ UNCHANGED <<blocked, now, issued, expiredSeen, loggedOut>>

\* time passes
Tick ==
    /\ now + ClockStep <= MaxTime
    /\ now' = now + ClockStep
    /\ out' = None
    /\ UNCHANGED <<sessions, issued, req, started, expiredSeen, loggedOut, blocked>>


(***************************************************************************)
(* process_chat_query (POST /api/chat/query)                               *)
(***************************************************************************)
\* an upstream call: the service, the function that issues it, the
\* X-Metabase-Session handle it carries and the path, SQL text or prompt
\* context it sends
Call(svc, op, handle, arg) == [svc |-> svc, op |-> op, handle |-> handle, arg |-> arg]

\* ChatResponse without processing_time_ms and timestamp, which no step reads
ChatResponse(query_type, sql_query, result, chart, text_response, error_message) ==
    [query_type |-> query_type, sql_query |-> sql_query, result |-> result,
     chart |-> chart, text_response |-> text_response,
     error_message |-> error_message]

\* what the handler hands to the transport layer: a 200 with the payload
Payload(chat) == [status |-> 200, detail |-> "", chat |-> Some(chat)]

\* the dependency get_current_user: the HTTPException raised or the session,
\* and the store validate_session leaves
get_current_user_forbidden(store, credentials, t) ==
    LET v == validate_session(store, credentials, t) IN
    [raised |-> IF IsNone(v.result)
                THEN Some(HTTPException(403, "Invalid or expired session"))
                ELSE None,
     session_data |-> v.result, store |-> v.store]

get_current_user(store, credentials, t) ==
    LET v == validate_session(store, credentials, t) IN
    [raised |-> IF IsNone(v.result)
                THEN Some(HTTPException(401, "Invalid or expired session"))
                ELSE None,
     session_data |-> v.result, store |-> v.store]

\* the tables the sampling loop asks for: of the first three, those with a name
sample_tables(tables) ==
    SelectSeq([i \in 1..(IF Len(tables) < 3 THEN Len(tables) ELSE 3) |-> tables[i].name],
              LAMBDA n : n # "")

\* the outer except clause: the error payload for an exception with message e
pipeline_except_reraise(e) ==
    [status |-> 500, detail |-> "Internal Server Error", chat |-> None]

pipeline_except(e) ==
    Payload(ChatResponse("error", SQLQuery("", "Query failed", None), None, None,
                         None, Some(e)))

\* the response to a query the validator refuses
unsafe_response_blank(sql_query, safety_message) ==
    ChatResponse("error", SQLQuery("", "Query failed", None), None, None, None,
                 Some("Unsafe SQL query: " \o safety_message))

unsafe_response(sql_query, safety_message) ==
    ChatResponse("error", sql_query, None, None, None,
                 Some("Unsafe SQL query: " \o safety_message))

\* step 5: the response that ends the pipeline when the validator refuses
\* the generated query (None: the pipeline goes on to execute it)
safety_gate_open(sql_query, safety) == None

safety_gate(sql_query, safety) ==
    IF ~safety[1]
    THEN Some(Payload(unsafe_response(sql_query, safety[2])))
    ELSE None

\* the inner except clause: the response to a failed execution
execution_failed_drops_sql(sql_query, sql_error) ==
    Payload(ChatResponse("error", SQLQuery("", "Query failed", None), None, None,
        Some("The SQL was generated but failed to execute. Please check the query syntax."),
        Some("SQL execution failed: " \o sql_error)))

\* (a failed execution answered as an empty table)
execution_failed_as_table(sql_query, sql_error) ==
    Payload(ChatResponse("table", sql_query, None, None,
        Some("Found 0 results. Data is best displayed in table format."), None))

execution_failed(sql_query, sql_error) ==
    Payload(ChatResponse("error", sql_query, None, None,
        Some("The SQL was generated but failed to execute. Please check the query syntax."),
        Some("SQL execution failed: " \o sql_error)))

\* the response typed by the suggestion instead of by the chart built
query_response_by_suggestion(sql_query, result, chart_suggestion) ==
    LET chart_data == IF IsNone(chart_suggestion) THEN None
                      ELSE create_visualization(result, chart_suggestion)
    IN  IF ~IsNone(chart_suggestion)
        THEN Payload(ChatResponse("chart", sql_query, Some(result), chart_data,
                 Some("Found " \o ToString(result.row_count) \o " results. Generated "
                          \o Get(chart_suggestion) \o " chart for visualization."),
                 None))
        ELSE Payload(ChatResponse("table", sql_query, Some(result), None,
                 Some("Found " \o ToString(result.row_count)
                          \o " results. Data is best displayed in table format."),
                 None))

\* the response to an executed query: a chart when one was built, else a table
query_response_table_only(sql_query, result, chart_suggestion) ==
    Payload(ChatResponse("table", sql_query, Some(result), None,
             Some("Found " \o ToString(result.row_count)
                      \o " results. Data is best displayed in table format."),
             None))

query_response(sql_query, result, chart_suggestion) ==
    LET chart_data == IF IsNone(chart_suggestion) THEN None
                      ELSE create_visualization(result, chart_suggestion)
    IN  IF ~IsNone(chart_data)
        THEN Payload(ChatResponse("chart", sql_query, Some(result), chart_data,
                 Some("Found " \o ToString(result.row_count) \o " results. Generated "
                          \o Get(chart_suggestion) \o " chart for visualization."),
                 None))
        ELSE Payload(ChatResponse("table", sql_query, Some(result), None,
                 Some("Found " \o ToString(result.row_count)
                          \o " results. Data is best displayed in table format."),
                 None))

(***************************************************************************)
(* What the upstream services may answer.                                  *)
(***************************************************************************)
NoJson == [name |-> "", engine |-> ""]
DatabaseAnswers ==
    { Answer(None, 200, "", [name |-> "shop", engine |-> "postgres"]),
      Answer(None, 500, UpstreamBody, NoJson),
      Answer(Some(NetworkErrorText), 0, "", NoJson) }

Field(name, database_type, semantic_type) ==
    [name |-> name, database_type |-> database_type, semantic_type |-> semantic_type]
Table(name, fields_ok) ==
    [name |-> name, display_name |-> name, rows |-> 3, fields_ok |-> fields_ok,
     fields |-> <<Field("id", "int4", "type/PK"), Field("region", "text", "")>>]

MetadataAnswers ==
    { Answer(None, 200, "", [tables |-> <<>>]),
      Answer(None, 200, "", [tables |-> <<Table("users", FALSE), Table("", TRUE),
                                          Table("orders", TRUE), Table("", TRUE),
                                          Table("items", TRUE)>>]),
      Answer(None, 500, UpstreamBody, [tables |-> <<>>]),
      Answer(Some(NetworkErrorText), 0, "", [tables |-> <<>>]) }

Col(name) == [display_name |-> "", name |-> name]
Dataset(status, error, cols, rows) ==
    [status |-> status, error |-> error, cols |-> cols, rows |-> rows,
     running_time |-> 7]
NoDataset == Dataset("", None, <<>>, <<>>)

SalesRows ==
    << <<VStr("east"), VInt(10)>>, <<VStr("east"), VInt(5)>>, <<VStr("west"), VInt(7)>> >>

SampleAnswers ==
    { Answer(None, 200, "", Dataset("completed", None, <<Col("region"), Col("sales")>>,
                                    SubSeq(SalesRows, 1, 1))),
      Answer(None, 500, UpstreamBody, NoDataset) }

DatasetAnswers ==
    { Answer(None, 200, "", Dataset("completed", None,
                                    <<Col("region"), Col("sales")>>, SalesRows)),
      Answer(None, 202, "", Dataset("completed", None,
                                    <<Col("region"), Col("sales")>>, <<>>)),
      Answer(None, 400, UpstreamBody, NoDataset),
      Answer(None, 202, "", Dataset("failed", Some(UpstreamBody), <<>>, <<>>)),
      Answer(Some(NetworkErrorText), 0, "", NoDataset) }

\* replies of the completion service to the SQL prompt
CompletionReplies ==
    { Reply(None, "SQL:\n" \o Fence \o "sql\nSELECT region, SUM(sales) FROM orders GROUP BY region\n"
                      \o Fence \o "\n\nEXPLANATION:\nTotal sales per region.\n"),
      Reply(None, Fence \o "sql\nDELETE FROM orders\n" \o Fence),
      Reply(None, "SQL:\nSELECT * FROM orders LIMIT 10\nEXPLANATION:\nThe first orders."),
      Reply(None, "DROP TABLE orders"),
      Reply(Some(CompletionErrorText), "") }

\* replies of the completion service to the visualization prompt
SuggestionReplies ==
    { Reply(None, "table"), Reply(None, " Bar\n"), Reply(None, "heatmap"),
      Reply(Some(CompletionErrorText), "") }

\* the error body or exception text an answer carries
UpstreamTexts(a) ==
    (IF IsNone(a.raised) THEN {} ELSE {Get(a.raised)})
        \cup (IF a.text = "" THEN {} ELSE {a.text})
ReplyTexts(reply) == IF IsNone(reply.raised) THEN {} ELSE {Get(reply.raised)}

(***************************************************************************)
(* The steps of process_chat_query, one per stretch between two awaits.    *)
(* The completion client is synchronous: its calls hold the event loop     *)
(* until the reply is there.                                               *)
(***************************************************************************)
\* the tokens a query may carry as HTTPBearer credentials
QueryTokens == {"bogus"} \cup { token_urlsafe(n) : n \in 1..issued }

Handle(r) == Get(r.sd).metabase_session_id

\* the handler sends what it hands to the transport layer
Send(p, r, response) ==
    Respond(p, [r EXCEPT !.chat = response.chat], response.status, response.detail)

\* an exception reaches the outer except clause of process_chat_query
Fail(p, r, message) == Send(p, r, pipeline_except(message))

\* the sampling loop goes on: the next get_sample_data call, or, when no
\* table is left, the completion call of generate_sql_query (sample_data is
\* part of the prompt and is not read again)
Sampling(p, r) ==
    IF Len(r.todo) > 0
    THEN /\ Await(p, [r EXCEPT !.pc = "q_sample",
                 !.calls = Append(@, Call("metabase", "get_sample_data", Handle(r),
                                          sample_query(r.todo[1], 2)))])
         /\ UNCHANGED blocked
    ELSE /\ Await(p, [r EXCEPT !.pc = "q_generate", !.sample_data = <<>>,
                 !.calls = Append(@, Call("openai", "generate_sql_query", "",
                                          r.context))])
         /\ blocked' = Some(p)

\* the dependency and the handler up to the first await of get_database_schema
QueryStart(p) ==
    /\ CanStart(p)
    /\ \E t \in QueryTokens :
        LET u == get_current_user(sessions, t, now)
            r0 == [NoRequest EXCEPT !.kind = "query", !.token = t,
                       !.stale = PastExpiry(sessions, t, now) \/ t \in expiredSeen]
        IN  /\ sessions' = u.store
            /\ expiredSeen' = IF PastExpiry(sessions, t, now)
                              THEN expiredSeen \cup {t} ELSE expiredSeen
            /\ IF ~IsNone(u.raised)
               THEN Respond(p, r0, Get(u.raised).status, Get(u.raised).detail)
               ELSE Await(p, [r0 EXCEPT !.pc = "q_db", !.sd = u.session_data,
                        !.calls = <<Call("metabase", "get_database_schema",
                                         Get(u.session_data).metabase_session_id,
                                         "/api/database")>>])
    /\ started' = started + 1
    /\ UNCHANGED <<blocked, now, issued, loggedOut>>

\* the answer to GET /api/database/{id} arrives
QuerySchemaDb(p) ==
    /\ Running
    /\ req[p].pc = "q_db"
    /\ \E a \in DatabaseAnswers :
        LET g == get_database_info(a)
            r == [req[p] EXCEPT !.upstream = @ \cup UpstreamTexts(a)]
        IN  IF ~g.ok
            THEN Fail(p, [r EXCEPT !.failed = @ \cup {"schema"}], g.error)
            ELSE Await(p, [r EXCEPT !.pc = "q_meta", !.info = Some(Value(g)),
                     !.calls = Append(@, Call("metabase", "get_database_schema",
                                              Handle(r), "/api/database/metadata"))])
    /\ UNCHANGED <<blocked, now, sessions, issued, started, expiredSeen, loggedOut>>

\* the answer to GET /api/database/{id}/metadata arrives: the schema, its
\* context, and the start of the sampling loop
QuerySchemaMeta(p) ==
    /\ Running
    /\ req[p].pc = "q_meta"
    /\ \E a \in MetadataAnswers :
        LET g == get_database_schema(Get(req[p].info), a)
            r == [req[p] EXCEPT !.upstream = @ \cup UpstreamTexts(a)]
        IN  IF ~g.ok
            THEN Fail(p, [r EXCEPT !.failed = @ \cup {"schema"}], g.error)
                 /\ UNCHANGED blocked
            ELSE Sampling(p, [r EXCEPT !.context = build_schema_context(Value(g)),
                                       !.todo = sample_tables(Value(g).tables)])
    /\ UNCHANGED <<now, sessions, issued, started, expiredSeen, loggedOut>>

\* the answer to a sampling query arrives
QuerySample(p) ==
    /\ Running
    /\ req[p].pc = "q_sample"
    /\ \E a \in SampleAnswers :
        LET rows == get_sample_data(a)
            bad == ~IsNone(a.raised) \/ a.status_code # 200
        IN  Sampling(p, [req[p] EXCEPT
                !.upstream = @ \cup UpstreamTexts(a),
                !.failed = IF bad THEN @ \cup {"sampling"} ELSE @,
                !.sample_data = Append(@, <<req[p].todo[1], rows>>),
                !.todo = Tail(@)])
    /\ UNCHANGED <<now, sessions, issued, started, expiredSeen, loggedOut>>

\* the completion call of generate_sql_query returns one of replies: the
\* reply is parsed, the query is checked, and it is sent to the BI platform
\* or refused
GenerateFrom(p, replies) ==
    /\ blocked = Some(p)
    /\ req[p].pc = "q_generate"
    /\ \E reply \in replies :
        LET g == generate_sql_query(reply)
            r == [req[p] EXCEPT !.upstream = @ \cup ReplyTexts(reply),
                      !.reply = IF IsNone(reply.raised)
                                THEN Some(reply.content) ELSE None]
        IN  IF ~g.ok
            THEN Fail(p, [r EXCEPT !.failed = @ \cup {"generation"}], g.error)
            ELSE LET sql_query == Value(g)
                     safety == validate_sql_safety(sql_query.query)
                     is_safe == safety[1]
                     gate == safety_gate(sql_query, safety)
                     r1 == [r EXCEPT !.sql = Some(sql_query),
                                !.accepted = IF is_safe THEN @ \cup {sql_query.query} ELSE @,
                                !.rejected = IF is_safe THEN @ ELSE @ \cup {sql_query.query},
                                !.failed = IF is_safe THEN @ ELSE @ \cup {"safety"}]
                 IN  IF ~IsNone(gate)
                     THEN Send(p, r1, Get(gate))
                     ELSE Await(p, [r1 EXCEPT !.pc = "q_execute",
                              !.calls = Append(@, Call("metabase", "execute_sql_query",
                                                       Handle(r), sql_query.query))])
    /\ blocked' = None
    /\ UNCHANGED <<now, sessions, issued, started, expiredSeen, loggedOut>>

QueryGenerate(p) == GenerateFrom(p, CompletionReplies)

\* the answer to the execution arrives: an error response, or the result
\* and the completion call of suggest_visualization
QueryExecute(p) ==
    /\ Running
    /\ req[p].pc = "q_execute"
    /\ \E a \in DatasetAnswers :
        LET x == execute_sql_query(a)
            r == [req[p] EXCEPT !.upstream = @ \cup UpstreamTexts(a)]
        IN  IF ~x.ok
            THEN /\ Send(p, [r EXCEPT !.failed = @ \cup {"execution"}],
                         execution_failed(Get(r.sql), x.error))
                 /\ UNCHANGED blocked
            ELSE /\ Await(p, [r EXCEPT !.pc = "q_suggest",
                        !.result = Some(QueryResult(clean_rows(Value(x).data),
                                                    clean_columns(Value(x).columns),
                                                    Value(x).row_count,
                                                    Value(x).execution_time_ms)),
                        !.calls = Append(@, Call("openai", "suggest_visualization", "",
                                                 Get(r.sql).query))])
                 /\ blocked' = Some(p)
    /\ UNCHANGED <<now, sessions, issued, started, expiredSeen, loggedOut>>

\* the completion call of suggest_visualization returns: the chart, if any,
\* and the response
SuggestFrom(p, replies) ==
    /\ blocked = Some(p)
    /\ req[p].pc = "q_suggest"
    /\ \E reply \in replies :
        LET chart_suggestion == suggest_visualization(reply)
            r == [req[p] EXCEPT !.upstream = @ \cup ReplyTexts(reply),
                      !.suggestion = IF IsNone(reply.raised)
                                     THEN Some(reply.content) ELSE None,
                      !.failed = IF IsNone(reply.raised) THEN @
                                 ELSE @ \cup {"presentation"}]
        IN  Send(p, r, query_response(Get(r.sql), Get(r.result), chart_suggestion))
    /\ blocked' = None
    /\ UNCHANGED <<now, sessions, issued, started, expiredSeen, loggedOut>>

QuerySuggest(p) == SuggestFrom(p, SuggestionReplies)

(***************************************************************************)
(* mock_query (POST /api/chat/mock-query): no dependency, a fixed schema   *)
(* context, one completion call.                                           *)
(***************************************************************************)
\* the schema_context literal of mock_query
mock_schema_context ==
    "Database Schema:\n- customers table: id, name, email, registration_date\n"
        \o "- orders table: id, customer_id, total_amount, order_date\n"
        \o "- products table: id, name, price, category\n"
        \o "- order_items table: order_id, product_id, quantity, price"

\* the upstream calls mock_query issues
mock_calls_with_schema ==
    <<Call("metabase", "get_database_schema", MetabaseId(1), "/api/database"),
      Call("openai", "generate_sql_query", "", mock_schema_context)>>

mock_calls ==
    <<Call("openai", "generate_sql_query", "", mock_schema_context)>>

\* what mock_query answers once the completion call has returned
mock_query(reply) ==
    LET g == generate_sql_query(reply) IN
    IF g.ok
    THEN [status |-> 200, detail |-> "", sql |-> Some(Value(g))]
    ELSE [status |-> 500, detail |-> "Failed to process query: " \o g.error,
          sql |-> None]

\* the handler up to the completion call, whatever Authorization the
\* caller sends
MockStart(p) ==
    /\ CanStart(p)
    /\ \E t \in {""} \cup QueryTokens :
          Await(p, [NoRequest EXCEPT !.kind = "mock", !.pc = "m_generate",
                                     !.token = t, !.calls = mock_calls])
    /\ blocked' = Some(p)
    /\ started' = started + 1
    /\ UNCHANGED <<now, sessions, issued, expiredSeen, loggedOut>>

\* the completion call returns: the response
MockGenerate(p) ==
    /\ blocked = Some(p)
    /\ req[p].pc = "m_generate"
    /\ \E reply \in CompletionReplies :
          LET m == mock_query(reply) IN
          Respond(p, [req[p] EXCEPT !.sql = m.sql,
                          !.upstream = @ \cup ReplyTexts(reply)],
                  m.status, m.detail)
    /\ blocked' = None
    /\ UNCHANGED <<now, sessions, issued, started, expiredSeen, loggedOut>>


(***************************************************************************)
(* The system.                                                             *)
(***************************************************************************)
Init ==
    /\ now = 0
    /\ sessions = EmptyStore
    /\ issued = 0
    /\ req = [p \in Procs |-> NoRequest]
    /\ out = None
    /\ started = 0
    /\ expiredSeen = {}
    /\ loggedOut = {}
    /\ blocked = None

Next ==
    \/ Tick
    \/ \E p \in Procs : LoginStart(p)
    \/ \E p \in Procs : LoginPost(p)
    \/ \E p \in Procs : LoginUser(p)
    \/ \E p \in Procs : LogoutStart(p)
    \/ \E p \in Procs : LogoutResume(p)
    \/ \E p \in Procs : ValidateRoute(p)
    \/ \E p \in Procs : StatusRoute(p)

\* the session routes: login, logout, validate, status
Spec == Init /\ [][Next]_vars

\* the state a first login that succeeds at once leaves: its session is in
\* the store and its response has just been sent
InitChat ==
    LET session_data == SessionData("alice", MetabaseId(1), 1, SessionTTL)
        login == [NoRequest EXCEPT !.kind = "login", !.pc = "done",
                      !.username = "alice", !.post = "ok", !.userget = "ok",
                      !.handle = MetabaseId(1), !.token = token_urlsafe(1),
                      !.sd = Some(session_data), !.status = 200]
    IN  /\ now = 0
        /\ sessions = Put(EmptyStore, token_urlsafe(1), session_data)
        /\ issued = 1
        /\ req = [p \in Procs |-> NoRequest]
        /\ out = Some(login)
        /\ started = 1
        /\ expiredSeen = {}
        /\ loggedOut = {}
        /\ blocked = None

NextChat ==
    \/ Tick
    \/ \E p \in Procs : QueryStart(p)
    \/ \E p \in Procs : QuerySchemaDb(p)
    \/ \E p \in Procs : QuerySchemaMeta(p)
    \/ \E p \in Procs : QuerySample(p)
    \/ \E p \in Procs : QueryGenerate(p)
    \/ \E p \in Procs : QueryExecute(p)
    \/ \E p \in Procs : QuerySuggest(p)
    \/ \E p \in Procs : MockStart(p)
    \/ \E p \in Procs : MockGenerate(p)

\* the query pipeline, for the requests that follow a login
SpecChat == InitChat /\ [][NextChat]_vars

(***************************************************************************)
(* get_table_sample_data (GET /api/schema/table/{table_name}/sample)       *)
(***************************************************************************)
\* the table names a caller may put in the path
TableNames == {"orders", "orders; DROP TABLE orders --"}
\* the limits a caller may ask for
SampleLimits == {5, 50}
MaxSampleLimit == 20

\* get_current_user of routes/schema.py, which reads the Authorization header
schema_get_current_user(store, authorization, t) ==
    IF ~authorization.present \/ authorization.scheme # "Bearer"
    THEN [raised |-> Some(HTTPException(401, "Missing or invalid authorization header")),
          session_data |-> None, store |-> store]
    ELSE LET v == validate_session(store, authorization.cred, t) IN
         [raised |-> IF IsNone(v.result)
                     THEN Some(HTTPException(401, "Invalid or expired session"))
                     ELSE None,
          session_data |-> v.result, store |-> v.store]

\* the dependency and the handler up to the await of get_sample_data
TableSampleStart(p) ==
    /\ CanStart(p)
    /\ \E h \in AuthHeaders, table_name \in TableNames, asked \in SampleLimits :
        LET u == schema_get_current_user(sessions, h, now)
            limit == IF asked > MaxSampleLimit THEN MaxSampleLimit ELSE asked
            r0 == [NoRequest EXCEPT !.kind = "sample", !.token = h.cred,
                       !.stale = PastExpiry(sessions, h.cred, now)
                                    \/ h.cred \in expiredSeen]
        IN  /\ sessions' = u.store
            /\ expiredSeen' = IF h.present /\ h.scheme = "Bearer"
                                   /\ PastExpiry(sessions, h.cred, now)
                              THEN expiredSeen \cup {h.cred} ELSE expiredSeen
            /\ IF ~IsNone(u.raised)
               THEN Respond(p, r0, Get(u.raised).status, Get(u.raised).detail)
               ELSE Await(p, [r0 EXCEPT !.pc = "t_sample", !.sd = u.session_data,
                        !.todo = <<table_name>>,
                        !.calls = <<Call("metabase", "get_sample_data",
                                         Get(u.session_data).metabase_session_id,
                                         sample_query(table_name, limit))>>])
    /\ started' = started + 1
    /\ UNCHANGED <<blocked, now, issued, loggedOut>>

\* the answer to the sampling query arrives: the rows, none on any failure
TableSampleAnswer(p) ==
    /\ Running
    /\ req[p].pc = "t_sample"
    /\ \E a \in SampleAnswers :
        LET rows == get_sample_data(a)
            r == [req[p] EXCEPT !.upstream = @ \cup UpstreamTexts(a),
                      !.sample_data = <<<<req[p].todo[1], rows>>>>,
                      !.count = Len(rows), !.todo = <<>>]
        IN  Respond(p, r, 200, "")
    /\ UNCHANGED <<blocked, now, sessions, issued, started, expiredSeen, loggedOut>>

NextSchema ==
    \/ NextChat
    \/ \E p \in Procs : TableSampleStart(p)
    \/ \E p \in Procs : TableSampleAnswer(p)

\* the query pipeline and the table-sample route, after a login
SpecSchema == InitChat /\ [][NextSchema]_vars

NextLogout ==
    \/ NextChat
    \/ \E p \in Procs : LogoutStart(p)
    \/ \E p \in Procs : LogoutResume(p)

\* the query pipeline beside logouts of the session, after a login
SpecLogout == InitChat /\ [][NextLogout]_vars

(***************************************************************************)
(* The safety validator on its own: the generation step of a query whose   *)
(* completion reply carries any of a family of SQL texts.                  *)
(***************************************************************************)
SqlHeads ==
    {"SELECT", "select", "SeLeCt", "WITH x AS (SELECT 1) SELECT",
     "EXPLAIN SELECT", "INSERT INTO x SELECT"}
SqlColumns ==
    {"*", "created_at", "updated_at", "deleted_at", "update_count", "backdrop"}
SqlTails ==
    {"", " LIMIT 5", "; DROP TABLE t", "; UPDATE t SET a = 1", "; delete from t",
     "; CREATE TABLE x (a int)", ";\nDROP\nTABLE t", "; TRUNCATE t"}

\* the SQL texts the completion service may write
SqlTexts ==
    { head \o " " \o column \o " FROM t" \o tail :
          head \in SqlHeads, column \in SqlColumns, tail \in SqlTails }
        \cup {"", "DROP TABLE orders", "SELECT created_at FROM orders"}

\* replies in the format the prompt asks for
FencedReplies ==
    { Reply(None, "SQL:\n" \o Fence \o "sql\n" \o text \o "\n" \o Fence
                      \o "\n\nEXPLANATION:\nAs asked.")
          : text \in SqlTexts }

QueryGenerateText(p) == GenerateFrom(p, FencedReplies)

\* a query of the logged-in user has fetched the schema of a database
\* without tables and is in its completion call
InitSafety ==
    LET session_data == SessionData("alice", MetabaseId(1), 1, SessionTTL)
        schema_info == Value(get_database_schema(
                           [name |-> "shop", engine |-> "postgres"],
                           Answer(None, 200, "", [tables |-> <<>>])))
        context == build_schema_context(schema_info)
        query == [NoRequest EXCEPT !.kind = "query", !.pc = "q_generate",
                      !.token = token_urlsafe(1), !.sd = Some(session_data),
                      !.info = Some([name |-> "shop", engine |-> "postgres"]),
                      !.context = context,
                      !.calls = <<Call("metabase", "get_database_schema",
                                       MetabaseId(1), "/api/database"),
                                  Call("metabase", "get_database_schema",
                                       MetabaseId(1), "/api/database/metadata"),
                                  Call("openai", "generate_sql_query", "", context)>>]
    IN  /\ now = 0
        /\ sessions = Put(EmptyStore, token_urlsafe(1), session_data)
        /\ issued = 1
        /\ req = [p \in Procs |-> IF p = "r1" THEN query ELSE NoRequest]
        /\ out = None
        /\ started = 2
        /\ expiredSeen = {}
        /\ loggedOut = {}
        /\ blocked = Some("r1")

NextSafety == \E p \in Procs : QueryGenerateText(p)

SpecSafety == InitSafety /\ [][NextSafety]_vars

(***************************************************************************)
(* The reply parser on its own: the generation step of a query whose       *)
(* completion reply has any of a family of layouts.                        *)
(***************************************************************************)
ReplyHeads == {"", "SQL:\n", "sql:\n", "Here is the query:\n"}
ReplySqls == {"SELECT * FROM orders", "SELECT region\nFROM orders", "DROP TABLE orders", ""}
ReplyTails == {"", "\n\nEXPLANATION:\nAs asked.", "\nexplanation: as asked"}
\* the SQL in a closed fenced block, bare, or in a block left open
ReplyBodies(sql) ==
    {Fence \o "sql\n" \o sql \o "\n" \o Fence, sql, Fence \o "sql\n" \o sql}

LayoutReplies ==
    { Reply(None, head \o body \o tail) :
          head \in ReplyHeads,
          body \in UNION { ReplyBodies(sql) : sql \in ReplySqls },
          tail \in ReplyTails }

QueryGenerateLayout(p) == GenerateFrom(p, LayoutReplies)

NextParse == \E p \in Procs : QueryGenerateLayout(p)

\* from the state where the query is in its completion call
SpecParse == InitSafety /\ [][NextParse]_vars

(***************************************************************************)
(* The chart builders on their own: the last step of a query whose         *)
(* execution has returned any of a family of results.                      *)
(***************************************************************************)
ChartColumns == <<"region", "sales">>
RegionCells == {VStr("east"), VStr("west"), VNull, VInt(4)}
SalesCells == {VInt(5), VNull, VStr("n/a"), VStr("7")}
ChartRows == { Zip(ChartColumns, <<r, s>>) : r \in RegionCells, s \in SalesCells }
\* rows of two regions whose sales are numbers, null or text
RepeatRows ==
    { Zip(ChartColumns, <<r, s>>) :
          r \in {VStr("east"), VStr("west")}, s \in {VInt(5), VNull, VStr("n/a")} }

\* results with many categories: category i of n has the sales shape[i],
\* and the first category may come back in one more row
CategoryCounts == {14, 15, 16, 17}
CategoryLabel(i) == VStr("c" \o ToString(i))
SalesShapes ==
    { [i \in 1..17 |-> i], [i \in 1..17 |-> 18 - i], [i \in 1..17 |-> 5],
      [i \in 1..17 |-> (i * 7) % 5], [i \in 1..17 |-> IF i = 2 THEN 0 ELSE i] }
CategoryRows(n, shape, again) ==
    [i \in 1..n |-> Zip(ChartColumns, <<CategoryLabel(i), VInt(shape[i])>>)]
        \o (IF again = 0 THEN <<>>
            ELSE <<Zip(ChartColumns, <<CategoryLabel(1), VInt(again)>>)>>)

ChartData ==
    { <<a>> : a \in ChartRows }
        \cup { <<a, b>> : a \in ChartRows, b \in ChartRows }
        \cup { <<a, b, c>> : a \in RepeatRows, b \in RepeatRows, c \in RepeatRows }
        \cup { CategoryRows(n, shape, again) :
                   n \in CategoryCounts, shape \in SalesShapes, again \in {0, 20} }

\* replies of the completion service that name a chart type
ChartReplies == { Reply(None, "bar"), Reply(None, "pie"), Reply(None, "scatter"),
                  Reply(None, "line") }

QueryChart(p) == SuggestFrom(p, ChartReplies)

\* a query of the logged-in user has executed its SQL, has the result and
\* is in the completion call of suggest_visualization
InitChart ==
    LET session_data == SessionData("alice", MetabaseId(1), 1, SessionTTL)
        sql_query == SQLQuery("SELECT region, sales FROM orders", "As asked.", Some(1000))
    IN  /\ now = 0
        /\ sessions = Put(EmptyStore, token_urlsafe(1), session_data)
        /\ issued = 1
        /\ \E data \in ChartData :
               req = [p \in Procs |->
                  IF p = "r1"
                  THEN [NoRequest EXCEPT !.kind = "query", !.pc = "q_suggest",
                            !.token = token_urlsafe(1), !.sd = Some(session_data),
                            !.sql = Some(sql_query),
                            !.accepted = {sql_query.query},
                            !.result = Some(QueryResult(clean_rows(data),
                                                clean_columns(ChartColumns), Len(data), 7)),
                            !.calls = <<Call("metabase", "execute_sql_query",
                                             MetabaseId(1), sql_query.query),
                                        Call("openai", "suggest_visualization", "",
                                             sql_query.query)>>]
                  ELSE NoRequest]
        /\ out = None
        /\ started = 2
        /\ expiredSeen = {}
        /\ loggedOut = {}
        /\ blocked = Some("r1")

NextChart == \E p \in Procs : QueryChart(p)

SpecChart == InitChart /\ [][NextChart]_vars

(***************************************************************************)
(* The JSON coercion on its own.  A value is a tree: a dict, a list, None, *)
(* a scalar json.dumps accepts, a scalar it rejects, or an object of a     *)
(* numpy type with its tolist() / item().                                  *)
(***************************************************************************)
VList(items) == [t |-> "list", items |-> items]
VDict(items) == [t |-> "dict", items |-> items]
\* an object whose type's module is numpy: unboxed is what tolist() or
\* item() returns (a number or a list for numeric dtypes, a date for
\* datetime64, the objects themselves for an array of dtype object)
VNumpy(unboxed) == [t |-> "numpy", unboxed |-> unboxed]

\* DatabaseService.clean_data_for_serialization(data)
RECURSIVE clean_data_for_serialization(_)
clean_data_for_serialization(data) ==
    IF data.t = "numpy" THEN data.unboxed
    ELSE IF data.t = "dict"
    THEN VDict([k \in DOMAIN data.items |-> clean_data_for_serialization(data.items[k])])
    ELSE IF data.t = "list"
    THEN VList([i \in 1..Len(data.items) |-> clean_data_for_serialization(data.items[i])])
    ELSE IF data.t = "null" THEN VNull
    ELSE IF data.t = "opaque" THEN VStr(PyStr(data))
    ELSE data

\* clean_data_for_json(data) of routes/chat.py: the same body
RECURSIVE clean_data_for_json(_)
clean_data_for_json(data) ==
    IF data.t = "numpy" THEN data.unboxed
    ELSE IF data.t = "dict"
    THEN VDict([k \in DOMAIN data.items |-> clean_data_for_json(data.items[k])])
    ELSE IF data.t = "list"
    THEN VList([i \in 1..Len(data.items) |-> clean_data_for_json(data.items[i])])
    ELSE IF data.t = "null" THEN VNull
    ELSE IF data.t = "opaque" THEN VStr(PyStr(data))
    ELSE data

\* json.dumps(data) succeeds
RECURSIVE JsonSafe(_)
JsonSafe(data) ==
    CASE data.t = "dict" -> \A k \in DOMAIN data.items : JsonSafe(data.items[k])
      [] data.t = "list" -> \A i \in 1..Len(data.items) : JsonSafe(data.items[i])
      [] data.t \in {"null", "bool", "int", "str"} -> TRUE
      [] OTHER -> FALSE

\* scalars: None, json-safe ones, a datetime, and numpy scalars and arrays
PlainScalars == {VNull, VBool(TRUE), VInt(3), VStr("east"), VOpaque("2024-01-01")}
NumpyValues ==
    {VNumpy(VInt(3)), VNumpy(VOpaque("2024-01-01")),
     VNumpy(VList(<<VInt(1), VInt(2)>>)), VNumpy(VList(<<VOpaque("1.50")>>))}
Leaves1 == PlainScalars \cup NumpyValues
Lists1 == {VList(<<>>)} \cup { VList(<<v>>) : v \in Leaves1 }
             \cup { VList(<<v, w>>) : v \in PlainScalars, w \in Leaves1 }
Dicts1 == { VDict([k \in {"region"} |-> v]) : v \in Leaves1 \cup Lists1 }
CleanInputs ==
    Leaves1 \cup Lists1 \cup Dicts1 \cup { VList(<<d>>) : d \in Dicts1 }

\* execute_sql_query hands its rows to clean_data_for_serialization
CleanForSerialization(p) ==
    /\ req[p].pc = "clean_serialization"
    /\ Await(p, [req[p] EXCEPT !.pc = "clean_json",
                     !.ret = req[p].info,
                     !.info = Some(clean_data_for_serialization(Get(req[p].info)))])
    /\ UNCHANGED <<now, sessions, issued, started, expiredSeen, loggedOut, blocked>>

\* process_chat_query hands the rows it got to clean_data_for_json
CleanForJson(p) ==
    /\ req[p].pc = "clean_json"
    /\ Await(p, [req[p] EXCEPT !.pc = "cleaned",
                     !.ret = req[p].info,
                     !.info = Some(clean_data_for_json(Get(req[p].info)))])
    /\ UNCHANGED <<now, sessions, issued, started, expiredSeen, loggedOut, blocked>>

\* a value is about to be coerced
InitClean ==
    /\ now = 0
    /\ sessions = EmptyStore
    /\ issued = 0
    /\ \E data \in CleanInputs :
           req = [p \in Procs |->
                     IF p = "r1"
                     THEN [NoRequest EXCEPT !.kind = "clean",
                               !.pc = "clean_serialization", !.info = Some(data)]
                     ELSE NoRequest]
    /\ out = None
    /\ started = 1
    /\ expiredSeen = {}
    /\ loggedOut = {}
    /\ blocked = None

NextClean ==
    \/ \E p \in Procs : CleanForSerialization(p)
    \/ \E p \in Procs : CleanForJson(p)

SpecClean == InitClean /\ [][NextClean]_vars

(***************************************************************************)
(* Properties of the session store.                                        *)
(***************************************************************************)

(* C2: once validate_session has found a session past its expires_at, it   *)
(* has answered absent and removed the entry, and from then on neither     *)
(* validate_session nor get_active_sessions_count finds that token,        *)
(* whatever validate, count, purge or logout calls follow.                 *)
LazyEvictionPermanent ==
    /\ \A t \in expiredSeen :
          /\ t \notin DOMAIN sessions
          /\ IsNone(validate_session(sessions, t, now).result)
          /\ t \notin active_sessions(sessions, now)
    /\ (Done("validate") /\ Get(out).stale) =>
          /\ Get(out).ret = Some(FALSE)
          /\ IsNone(Get(out).sd)
          /\ Get(out).token \notin DOMAIN sessions

\* a validate call on a token whose 24 hours are over has just answered
ExpiredSessionValidated ==
    /\ Done("validate")
    /\ Get(out).stale
    /\ Get(out).token \in expiredSeen
    /\ now > SessionTTL

(* C3: a logout that found the token in the store returns True and leaves  *)
(* the store without the entry, whether DELETE /api/session succeeded,     *)
(* failed or raised; a logout called after one that returned True on the   *)
(* same token returns False.                                               *)
LogoutAlwaysRemoves ==
    (Done("logout") /\ Get(out).status # 401) =>
        /\ ~IsNone(Get(out).sd) =>
              /\ Get(out).ret = Some(TRUE)
              /\ Get(out).token \notin DOMAIN sessions
        /\ Get(out).prior => Get(out).ret = Some(FALSE)

\* the second of two logouts in sequence on one token has just answered
SecondLogoutAnswered ==
    /\ Done("logout")
    /\ Get(out).prior
    /\ Get(out).token \in loggedOut
    /\ Get(out).ret = Some(FALSE)

\* the request received by the step, when the step receives one
Received ==
    IF \E q \in Procs : req[q].pc = "idle" /\ req'[q].pc # "idle"
    THEN req'[CHOOSE q \in Procs : req[q].pc = "idle" /\ req'[q].pc # "idle"]
    ELSE Get(out')

\* the step is a session-map operation of another request on the entry of t
ActsOnEntry(p, t) ==
    \/ /\ started' = started + 1
       /\ t \in DOMAIN sessions
       /\ \/ Received.kind \in {"validate", "query"} /\ Received.token = t
          \/ Received.kind = "logout" /\ Received.token = t
                /\ ~IsNone(Received.sd)
          \/ Received.kind = "status"
    \/ \E q \in Procs \ {p} :
          /\ req[q].pc = "logout_delete" /\ req[q].token = t
          /\ req'[q].pc = "idle"

(* C4: while a logout is between its lookup of the entry and its removal   *)
(* (awaiting DELETE /api/session), no validate_session,                    *)
(* cleanup_expired_sessions or other logout acts on that token's entry.    *)
SessionOpsExclusive ==
    [][ \A p \in Procs :
           (req[p].pc = "logout_delete" /\ req'[p].pc = "logout_delete")
               => ~ActsOnEntry(p, req[p].token) ]_vars

(* C10: a login fails with 401 when POST /api/session answers non-200,     *)
(* with 503 when the BI platform times out or cannot be reached, with 500  *)
(* on any other unanticipated failure, and succeeds only when both calls   *)
(* succeed.                                                                *)
LoginFailuresDistinguished ==
    Done("login") =>
        LET r == Get(out) IN
        /\ r.post = "non200" => r.status = 401
        /\ (r.post = "network" \/ r.userget = "network") => r.status = 503
        /\ (r.post = "bad_json" \/ r.userget = "bad_user") => r.status = 500
        /\ r.status = 200 <=> (r.post = "ok" /\ r.userget = "ok")

\* a login has just failed because the BI platform could not be reached
LoginUnreachableAnswered ==
    /\ Done("login")
    /\ Get(out).userget = "network"
    /\ Get(out).status = 503

\* the step sends the response of a login
LoginAnswered == ~IsNone(out') /\ Get(out').kind = "login"

(* C11: an entry is added to the store only by the step of a login in      *)
(* which POST /api/session and GET /api/user/current both succeeded, and   *)
(* that step adds just the new session; a login that fails (non-200 login, *)
(* missing session id, failed user lookup, network error, invalid user     *)
(* data) and every login still in flight leave the store as it was.        *)
LoginOnlyAddsSession ==
    [][ /\ (DOMAIN sessions' \ DOMAIN sessions # {}) =>
              /\ LoginAnswered
              /\ Get(out').post = "ok"
              /\ Get(out').userget = "ok"
              /\ Get(out').status = 200
              /\ Get(out').token \notin DOMAIN sessions
              /\ sessions' = Put(sessions, Get(out').token, Get(Get(out').sd))
        /\ (LoginAnswered /\ ~(Get(out').post = "ok" /\ Get(out').userget = "ok")) =>
              /\ Get(out').status # 200
              /\ sessions' = sessions
        /\ \A p \in Procs :
              (req'[p].kind = "login" /\ req'[p] # req[p]) => sessions' = sessions
      ]_vars

\* a login whose user data was invalid has failed while a session is stored
FailedLoginAnswered ==
    /\ Done("login")
    /\ Get(out).userget = "bad_user"
    /\ Get(out).status = 500
    /\ DOMAIN sessions # {}

\* the tokens drawn from secrets.token_urlsafe so far
IssuedTokens == { token_urlsafe(n) : n \in 1..issued }

(* C12: every token in the store has expires_at equal to the time of its   *)
(* insertion plus 24 hours: an entry is inserted with now + 24 and no step *)
(* changes an entry that stays in the store; a token is inserted only once *)
(* (it is a fresh draw, never one issued before), so no two sessions share *)
(* a token.                                                                *)
ExpiryFixedAtCreation ==
    /\ [](\A t \in DOMAIN sessions :
             /\ t \in IssuedTokens
             /\ sessions[t].expires_at \in { c + SessionTTL : c \in 0..now })
    /\ [][ \A t \in DOMAIN sessions' :
              IF t \in DOMAIN sessions
              THEN sessions'[t] = sessions[t]
              ELSE /\ sessions'[t].expires_at = now + SessionTTL
                   /\ now' = now
                   /\ t \notin IssuedTokens
                   /\ t \in { token_urlsafe(n) : n \in 1..issued' }
         ]_vars

\* a session created earlier has been validated and keeps its expires_at
OldSessionValidated ==
    /\ Done("validate")
    /\ Get(out).ret = Some(TRUE)
    /\ Get(out).token \in DOMAIN sessions
    /\ now > 0
    /\ sessions[Get(out).token].expires_at = SessionTTL

\* tokens that are not in the store: the empty one, one never issued, the
\* issued ones that were removed, the next one to be issued
AbsentTokens ==
    ({"", "bogus"} \cup { token_urlsafe(n) : n \in 1..(issued + 1) }) \ DOMAIN sessions

(* C13: for every token that is not in the store, the empty token          *)
(* included, validate_session returns None and leaves the store as it is;  *)
(* the validate route then answers "not valid" and the store is unchanged. *)
UnknownTokenValidatesAbsent ==
    /\ [](\A t \in AbsentTokens :
             validate_session(sessions, t, now) = [result |-> None, store |-> sessions])
    /\ [][ (/\ ~IsNone(out')
            /\ Get(out').kind = "validate"
            /\ Get(out').detail # "Missing or invalid authorization header"
            /\ Get(out').token \notin DOMAIN sessions) =>
              /\ Get(out').ret = Some(FALSE)
              /\ IsNone(Get(out').sd)
              /\ sessions' = sessions
         ]_vars

\* a token never issued has been validated while a session is stored
UnknownTokenValidated ==
    /\ Done("validate")
    /\ Get(out).token = "bogus"
    /\ Get(out).detail = "Invalid or expired session"
    /\ Get(out).ret = Some(FALSE)
    /\ DOMAIN sessions # {}

(* C14: cleanup_expired_sessions removes exactly the entries with          *)
(* expires_at <= now and leaves every entry with expires_at > now in the   *)
(* store unchanged; so does the status route, which calls it.              *)
PurgeRemovesExactlyExpired ==
    /\ [](LET s == cleanup_expired_sessions(sessions, now) IN
             /\ DOMAIN s = { k \in DOMAIN sessions : sessions[k].expires_at > now }
             /\ \A k \in DOMAIN s : s[k] = sessions[k])
    /\ [][ (~IsNone(out') /\ Get(out').kind = "status") =>
              /\ DOMAIN sessions' =
                     { k \in DOMAIN sessions : sessions[k].expires_at > now }
              /\ \A k \in DOMAIN sessions' : sessions'[k] = sessions[k]
              /\ Get(out').count = Cardinality(DOMAIN sessions')
         ]_vars

\* the status route has purged a session that expires at this very hour and
\* has kept a later one
ExpiredPurgedLaterKept ==
    /\ Done("status")
    /\ now = SessionTTL
    /\ issued = 2
    /\ DOMAIN sessions = {token_urlsafe(2)}
    /\ loggedOut = {}
    /\ expiredSeen = {}
    /\ Get(out).count = 1


(***************************************************************************)
(* Properties of the query pipeline.                                       *)
(***************************************************************************)
\* the query requests in flight and the one just answered
Queries ==
    { req[p] : p \in { q \in Procs : req[q].kind = "query" } }
        \cup (IF Done("query") THEN {Get(out)} ELSE {})

\* the texts request r has sent to the BI platform through function op
Sent(r, op) == { r.calls[i].arg : i \in { j \in 1..Len(r.calls) : r.calls[j].op = op } }
\* the number of calls request r has issued through function op
Issued(r, op) == Cardinality({ j \in 1..Len(r.calls) : r.calls[j].op = op })

\* the request just answered carries a ChatResponse with an error_message
ErrorAnswered ==
    /\ Done("query")
    /\ ~IsNone(Get(out).chat)
    /\ ~IsNone(Get(Get(out).chat).error_message)

(* C1: a SQL text goes to the BI platform through execute_sql_query only   *)
(* after validate_sql_safety has returned safe for that very text; a       *)
(* request whose query the validator refused has ended at once in the      *)
(* Unsafe response, and neither execute_sql_query nor                      *)
(* suggest_visualization was called for it.                                *)
ExecutedOnlyIfSafe ==
    \A r \in Queries :
        /\ Sent(r, "execute_sql_query") \subseteq r.accepted
        /\ r.rejected # {} =>
              /\ r.pc = "done"
              /\ r.status = 200
              /\ Get(r.chat).query_type = "error"
              /\ StartsWith(Get(Get(r.chat).error_message), "Unsafe SQL query")
              /\ Issued(r, "execute_sql_query") = 0
              /\ Issued(r, "suggest_visualization") = 0

\* a query the validator found safe has been executed and answered
SafeQueryExecuted ==
    /\ Done("query")
    /\ Get(out).accepted # {}
    /\ Sent(Get(out), "execute_sql_query") = Get(out).accepted

(* C5, as the code has it: when the validator refuses the generated SQL,   *)
(* the response has classification error, an error_message that begins     *)
(* "Unsafe SQL query: " (capital U) followed by the validator's reason,    *)
(* sql_query.query equal to the generated text, and no result.             *)
UnsafeResponseEchoesSql ==
    (Done("query") /\ Get(out).rejected # {}) =>
        LET chat == Get(Get(out).chat) IN
        /\ chat.query_type = "error"
        /\ ~IsNone(chat.error_message)
        /\ Get(chat.error_message) =
               "Unsafe SQL query: " \o validate_sql_safety(chat.sql_query.query)[2]
        /\ chat.sql_query = Get(Get(out).sql)
        /\ Get(out).rejected = {chat.sql_query.query}
        /\ IsNone(chat.result)

(* C5 as stated: ... an error_message containing "unsafe" ...              *)
UnsafeResponseSaysUnsafe ==
    (Done("query") /\ Get(out).rejected # {}) =>
        LET chat == Get(Get(out).chat) IN
        /\ chat.query_type = "error"
        /\ ~IsNone(chat.error_message)
        /\ Contains(Get(chat.error_message), "unsafe")
        /\ chat.sql_query = Get(Get(out).sql)
        /\ IsNone(chat.result)

\* the reply "DELETE FROM orders" has been refused and answered
DeleteRefused ==
    /\ Done("query")
    /\ Get(out).rejected = {"DELETE FROM orders"}

(* C6: when execute_sql_query fails, the response has classification       *)
(* error, the generated SQL and explanation unchanged, no result and an    *)
(* error message, and the execution was attempted once only.               *)
ExecutionFailurePreservesSql ==
    (Done("query") /\ "execution" \in Get(out).failed) =>
        LET chat == Get(Get(out).chat) IN
        /\ Get(out).status = 200
        /\ chat.query_type = "error"
        /\ chat.sql_query = Get(Get(out).sql)
        /\ chat.sql_query.query \in Get(out).accepted
        /\ IsNone(chat.result)
        /\ IsNone(chat.chart)
        /\ ~IsNone(chat.error_message)
        /\ Issued(Get(out), "execute_sql_query") = 1

\* an execution has failed and the request has been answered
ExecutionFailureAnswered ==
    /\ Done("query")
    /\ "execution" \in Get(out).failed
    /\ Get(Get(out).sql).explanation = "Total sales per region."

\* the stages whose failure ends the pipeline in an error payload
FatalStages == {"schema", "generation", "safety", "execution"}

\* a step in which a validated query request leaves its slot
Leaves(p) == req[p].kind = "query" /\ req'[p].kind # "query"

\* a step that answers the request of slot p: once, with a 200 and a payload
Answers(p) ==
    /\ req'[p] = NoRequest
    /\ ~IsNone(out')
    /\ Get(out').kind = "query"
    /\ Get(out').token = req[p].token
    /\ Get(out').sd = req[p].sd
    /\ Get(out').status = 200
    /\ ~IsNone(Get(out').chat)
    /\ \A q \in Procs \ {p} : req'[q] = req[q]

(* C7, as the code has it: once the session is validated, every run ends   *)
(* in one response, sent as a 200 with a payload and never raised to the   *)
(* transport layer; a failure of the schema fetch, the SQL generation, the *)
(* safety check or the execution makes it an error payload, while a        *)
(* failure of sampling or of the presentation choice is absorbed and the   *)
(* run goes on to its table or chart response.                             *)
PipelineAnswersOnce ==
    /\ [][\A p \in Procs : Leaves(p) => Answers(p)]_vars
    /\ [](\A r \in Queries :
            (r.pc = "done" /\ ~IsNone(r.sd)) =>
                /\ r.status = 200
                /\ ~IsNone(r.chat)
                /\ (Get(r.chat).query_type = "error") <=> (r.failed \cap FatalStages # {})
                /\ (r.failed \cap FatalStages = {}) =>
                       Get(r.chat).query_type \in {"table", "chart"})

(* C7 as stated: a failure at any stage (sampling and presentation         *)
(* included) is converted to an error-classified payload.                  *)
EveryFailureIsErrorPayload ==
    \A r \in Queries :
        (r.pc = "done" /\ ~IsNone(r.sd)) =>
            /\ r.status = 200
            /\ ~IsNone(r.chat)
            /\ r.failed # {} => Get(r.chat).query_type = "error"

\* a schema fetch has failed and the request has been answered
SchemaFailureAnswered ==
    /\ Done("query")
    /\ "schema" \in Get(out).failed
    /\ Get(out).status = 200

(* C8: whenever an upstream call has failed, the error_message of the      *)
(* response contains neither the upstream response body nor the text of    *)
(* the upstream exception.                                                 *)
NoUpstreamTextExposed ==
    ErrorAnswered =>
        \A text \in Get(out).upstream :
            ~Contains(Get(Get(Get(out).chat).error_message), text)

(* C9: a query whose bearer token is unknown or expired is answered 401    *)
(* and issues no call to the BI platform or the completion service; every  *)
(* upstream call of a request comes after its session was validated and    *)
(* carries that session's handle.                                          *)
NoCallWithoutSession ==
    \A r \in Queries :
        /\ (r.token \notin { token_urlsafe(n) : n \in 1..issued } \/ r.stale) =>
              /\ r.pc = "done"
              /\ r.status = 401
              /\ r.calls = <<>>
              /\ IsNone(r.chat)
        /\ r.calls # <<>> =>
              /\ ~IsNone(r.sd)
              /\ \A i \in 1..Len(r.calls) :
                    r.calls[i].svc = "metabase" =>
                        r.calls[i].handle = Get(r.sd).metabase_session_id

\* a query with a token past its expires_at has been answered
ExpiredTokenRefused ==
    /\ Done("query")
    /\ Get(out).stale
    /\ Get(out).status = 401

\* the ChatResponse request r gets when the completion service answers the
\* visualization prompt with content
PresentationOf(r, content) ==
    Get(query_response(Get(r.sql), Get(r.result),
                       suggest_visualization(Reply(None, content))).chat)

(* C15, as the code has it: for one executed result with at least one row, *)
(* the response is a chart with a non-empty bar payload when the           *)
(* completion service answers "bar" and a table with no chart when it      *)
(* answers "table"; for a result with no rows it is a table with no chart  *)
(* in both cases; result.data and result.columns are the executed result's *)
(* in every case.                                                          *)
BarChartsRowsTableTables ==
    /\ \A r \in Queries : r.pc = "q_suggest" =>
          LET bar == PresentationOf(r, "bar")
              table == PresentationOf(r, "table")
              rows == Get(r.result).data
          IN  /\ rows # <<>> =>
                    /\ bar.query_type = "chart"
                    /\ ~IsNone(bar.chart)
                    /\ Get(bar.chart).chart_type = "bar"
                    /\ Get(bar.chart).data.labels # <<>>
                    /\ Len(Get(bar.chart).data.values) = Len(Get(bar.chart).data.labels)
              /\ rows = <<>> => (bar.query_type = "table" /\ IsNone(bar.chart))
              /\ table.query_type = "table"
              /\ IsNone(table.chart)
              /\ bar.result = r.result
              /\ table.result = r.result
              /\ Get(bar.result).data = Get(table.result).data
              /\ Get(bar.result).columns = Get(table.result).columns
    /\ \A r \in Queries : (r.pc = "done" /\ ~IsNone(r.result)) =>
          LET chat == Get(r.chat)
              hint == IF IsNone(r.suggestion) THEN None
                      ELSE suggest_visualization(Reply(None, Get(r.suggestion)))
          IN  /\ chat.result = r.result
              /\ (hint = Some("bar") /\ Get(r.result).data # <<>>) =>
                    /\ chat.query_type = "chart"
                    /\ ~IsNone(chat.chart)
                    /\ Get(chat.chart).data.labels # <<>>
              /\ (~IsNone(r.suggestion) /\ IsNone(hint)) =>
                    (chat.query_type = "table" /\ IsNone(chat.chart))

(* C15 as stated: for every executed result, "bar" gives a chart with a    *)
(* payload, "table" gives a table with no chart, with the same result.     *)
BarAlwaysCharts ==
    \A r \in Queries : r.pc = "q_suggest" =>
        LET bar == PresentationOf(r, "bar")
            table == PresentationOf(r, "table")
        IN  /\ bar.query_type = "chart"
            /\ ~IsNone(bar.chart)
            /\ table.query_type = "table"
            /\ IsNone(table.chart)
            /\ Get(bar.result).data = Get(table.result).data
            /\ Get(bar.result).columns = Get(table.result).columns

\* the sales by region have been answered as a bar chart
SalesChartAnswered ==
    /\ Done("query")
    /\ ~IsNone(Get(out).chat)
    /\ Get(Get(out).chat).query_type = "chart"
    /\ Get(Get(Get(out).chat).chart).data.labels = <<"east", "west">>
    /\ Len(Get(Get(Get(out).chat).result).data) = 3

(***************************************************************************)
(* Properties of the safety validator.                                     *)
(***************************************************************************)
\* the texts validate_sql_safety has been applied to for request r
Validated(r) == r.accepted \cup r.rejected

\* whitespace around a text: <<before, after>>
Pads == { <<"", "">>, <<"  ", "\n">>, <<"\n\t", " ">> }

(* C16: validate_sql_safety reports unsafe for every text that, once its   *)
(* surrounding whitespace is trimmed, does not begin with "select" in any  *)
(* letter case, whether or not a denylisted keyword is found in it.        *)
NonSelectIsUnsafe ==
    \A r \in Queries : \A text \in Validated(r) : \A pad \in Pads :
        LET padded == pad[1] \o text \o pad[2] IN
        ~StartsWith(Lower(Strip(padded)), "select") =>
            /\ ~validate_sql_safety(padded)[1]
            /\ text \in r.rejected
            /\ text \notin r.accepted

\* a text that starts with WITH and holds no denylisted keyword was refused
WithQueryRefused ==
    /\ Done("query")
    /\ Get(out).rejected = {"WITH x AS (SELECT 1) SELECT * FROM t"}
    /\ Get(Get(Get(out).chat).error_message)
           = "Unsafe SQL query: Only SELECT queries are allowed"

\* the denylisted keywords, without the space that follows them
Keywords == { Strip(dangerous_keywords[i]) : i \in 1..Len(dangerous_keywords) }

\* the denylisted keywords that occur in text as space-delimited tokens
KeywordTokens(text) ==
    LET tokens == Split(Lower(text), " ") IN
    { k \in Keywords : \E i \in 1..Len(tokens) : tokens[i] = k }

(* C17: validate_sql_safety accepts no text in which a denylisted keyword  *)
(* occurs as a space-delimited token; the carve-outs for created_at,       *)
(* create_, updated_at, update_, deleted_at, delete_ do not let through a  *)
(* text in which create, update or delete is also a token of its own.      *)
DenylistedTokensRejected ==
    \A r \in Queries : \A text \in r.accepted : KeywordTokens(text) = {}

(***************************************************************************)
(* Properties of concurrent requests.                                      *)
(***************************************************************************)
\* the request of slot p is waiting for the answer to an outbound call
Waiting(p) ==
    req[p].pc \in {"q_db", "q_meta", "q_sample", "q_generate", "q_execute",
                    "q_suggest", "m_generate"}

\* the step that takes the request of slot p on when its answer is there
Resume(p) ==
    \/ QuerySchemaDb(p)
    \/ QuerySchemaMeta(p)
    \/ QuerySample(p)
    \/ QueryGenerate(p)
    \/ QueryExecute(p)
    \/ QuerySuggest(p)
    \/ MockGenerate(p)

(* C18: no request blocks another: while a request is waiting on an        *)
(* outbound call (BI metadata, BI query execution, a completion-service    *)
(* call), every other request in flight, itself waiting on such a call,    *)
(* can take its next step as soon as its own answer is there.              *)
NoRequestBlocksAnother ==
    \A p \in Procs : \A q \in Procs \ {p} :
        (Waiting(p) /\ Waiting(q)) => ENABLED Resume(q)

(***************************************************************************)
(* Properties of failed upstream calls.                                    *)
(***************************************************************************)
\* the stages that are upstream calls
UpstreamStages == {"schema", "sampling", "generation", "execution", "presentation"}
\* the upstream stages whose failure the pipeline absorbs
AbsorbedStages == {"sampling", "presentation"}

\* the function that issues the calls of a stage
StageOp(stage) ==
    CASE stage = "schema" -> "get_database_schema"
      [] stage = "sampling" -> "get_sample_data"
      [] stage = "generation" -> "generate_sql_query"
      [] stage = "execution" -> "execute_sql_query"
      [] stage = "presentation" -> "suggest_visualization"

(* C19, as the code has it: no upstream call is issued twice in one run,   *)
(* failed or not; a failure of the schema fetch, of the SQL generation or  *)
(* of the execution ends the run at once in an error-classified response,  *)
(* the failed call being the last one issued; a failure of table sampling  *)
(* or of the presentation choice alone is absorbed and the run ends in a   *)
(* table or chart response.                                                *)
NoRetryFatalFailureEnds ==
    \A r \in Queries :
        /\ \A i \in 1..Len(r.calls) : \A j \in 1..Len(r.calls) :
              r.calls[i] = r.calls[j] => i = j
        /\ Issued(r, "get_database_schema") <= 2
        /\ Issued(r, "get_sample_data") <= 3
        /\ Issued(r, "generate_sql_query") <= 1
        /\ Issued(r, "execute_sql_query") <= 1
        /\ Issued(r, "suggest_visualization") <= 1
        /\ \A stage \in (UpstreamStages \ AbsorbedStages) \cap r.failed :
              /\ r.pc = "done"
              /\ ~IsNone(r.chat)
              /\ Get(r.chat).query_type = "error"
              /\ ~IsNone(Get(r.chat).error_message)
              /\ r.calls[Len(r.calls)].op = StageOp(stage)
        /\ (r.pc = "done" /\ r.failed # {} /\ r.failed \subseteq AbsorbedStages) =>
              /\ ~IsNone(r.chat)
              /\ Get(r.chat).query_type \in {"table", "chart"}
              /\ IsNone(Get(r.chat).error_message)

(* C19 as stated: a failure of any upstream call (schema metadata, table   *)
(* sampling, SQL generation, query execution, presentation classification) *)
(* leads to an error-classified terminal response.                         *)
AnyUpstreamFailureEndsInError ==
    \A r \in Queries :
        (r.pc = "done" /\ r.failed \cap UpstreamStages # {}) =>
            /\ ~IsNone(r.chat)
            /\ Get(r.chat).query_type = "error"

\* a run whose sampling had failed has ended on the failure of its
\* completion call, issued once
GenerationFailureAnswered ==
    /\ Done("query")
    /\ {"sampling", "generation"} \subseteq Get(out).failed
    /\ Issued(Get(out), "generate_sql_query") = 1
    /\ Get(Get(out).chat).query_type = "error"

(***************************************************************************)
(* Properties of the mock-query endpoint.                                  *)
(***************************************************************************)
\* the mock-query requests in flight and the one just answered
Mocks ==
    { req[p] : p \in { q \in Procs : req[q].kind = "mock" } }
        \cup (IF Done("mock") THEN {Get(out)} ELSE {})

\* the functions that call the BI platform
MetabaseOps == {"get_database_schema", "get_sample_data", "execute_sql_query"}

\* every response mock_query can send, as a function of the completion
\* reply alone
MockResponses ==
    { [NoRequest EXCEPT !.kind = "mock", !.pc = "done", !.calls = mock_calls,
           !.sql = mock_query(reply).sql, !.upstream = ReplyTexts(reply),
           !.status = mock_query(reply).status, !.detail = mock_query(reply).detail]
        : reply \in CompletionReplies }

(* C20: a mock-query request, whatever credentials it carries, holds no    *)
(* session and no external session handle, issues no call to the BI        *)
(* platform (no schema fetch, no sampling, no SQL execution), and its      *)
(* response is a function of the completion reply alone; none of its steps *)
(* changes the session store.                                              *)
MockSeparated ==
    /\ [](\A r \in Mocks :
             /\ IsNone(r.sd)
             /\ r.handle = ""
             /\ \A i \in 1..Len(r.calls) :
                   /\ r.calls[i].svc = "openai"
                   /\ r.calls[i].handle = ""
                   /\ r.calls[i].op \notin MetabaseOps
             /\ r.pc = "done" => [r EXCEPT !.token = ""] \in MockResponses)
    /\ [][ \A p \in Procs :
              ((req[p].kind = "mock" \/ req'[p].kind = "mock") /\ req'[p] # req[p]) =>
                  /\ sessions' = sessions
                  /\ expiredSeen' = expiredSeen
                  /\ loggedOut' = loggedOut
                  /\ issued' = issued
         ]_vars

\* a mock query sent with the token of a stored session has been answered
\* while a query of that session is in flight
MockAnsweredBesideQuery ==
    /\ Done("mock")
    /\ Get(out).status = 200
    /\ Get(out).token \in DOMAIN sessions
    /\ \E p \in Procs : req[p].kind = "query"

(***************************************************************************)
(* The JSON coercion                                                       *)
(***************************************************************************)
Cleaning == { p \in Procs : req[p].kind = "clean" }

\* C21 (as stated): the JSON coercion is idempotent over dicts, lists, None,
\* json-safe scalars and scalars json cannot write, boxed numpy values
\* among them: a value coerced once is left unchanged by a second coercion.
\* Violated: a numpy value is unboxed without a second look, so the first
\* coercion can yield an object that only the second one turns to text.
CoercionIdempotent ==
    \A p \in Cleaning :
        req[p].pc = "cleaned" => Get(req[p].info) = Get(req[p].ret)


\* a value holds a numpy object somewhere
RECURSIVE HasNumpy(_)
HasNumpy(data) ==
    CASE data.t = "numpy" -> TRUE
      [] data.t = "dict" -> \E k \in DOMAIN data.items : HasNumpy(data.items[k])
      [] data.t = "list" -> \E i \in 1..Len(data.items) : HasNumpy(data.items[i])
      [] OTHER -> FALSE

\* what the decoded body of an HTTP answer can hold (no numpy object): one
\* coercion makes it json-safe and a second one changes nothing
PlainCoercionIdempotent ==
    \A p \in Cleaning :
        req[p].pc = "clean_json" /\ ~HasNumpy(Get(req[p].ret))
            => /\ JsonSafe(Get(req[p].info))
               /\ clean_data_for_json(Get(req[p].info)) = Get(req[p].info)

(***************************************************************************)
(* Properties of the chart builders.                                       *)
(***************************************************************************)
\* the chart of the response just sent, when it is one of the given types
ChartAnswered(types) ==
    /\ Done("query")
    /\ ~IsNone(Get(out).chat)
    /\ Get(Get(out).chat).query_type = "chart"
    /\ Get(Get(Get(out).chat).chart).chart_type \in types
AnsweredChart == Get(Get(Get(out).chat).chart).data
AnsweredRows == Get(Get(Get(out).chat).result).data

\* the rows whose text column reads label
RowsOf(data, text_col, label) ==
    { k \in 1..Len(data) : PyStr(RowGet(data[k], text_col, VStr("Unknown"))) = label }

\* what the claim lets one row add: its number, 0 for null, 1 when the value
\* is no number
Contribution(row, numeric_col) ==
    LET value == RowGet(row, numeric_col, VInt(0)) IN
    CASE value.t = "null" -> 0
      [] value.t \in {"int", "bool"} -> value.n
      [] value.t = "str" /\ ~IsNone(ParseInt(value.s)) -> Get(ParseInt(value.s))
      [] OTHER -> 1

RECURSIVE ContributionSum(_, _, _)
ContributionSum(data, rows, numeric_col) ==
    IF rows = {} THEN 0
    ELSE LET k == CHOOSE k \in rows : TRUE IN
         Contribution(data[k], numeric_col)
             + ContributionSum(data, rows \ {k}, numeric_col)

\* C22: in a bar chart every label is the string value of the text column
\* of at least one row, no label comes twice, and the value beside a label
\* is the sum, over all rows of the result with that label, of the numeric
\* column, where null adds 0 and a value that is no number adds 1
BarValuesAreSums ==
    ChartAnswered({"bar"}) =>
        LET c == AnsweredChart
            data == AnsweredRows
        IN  /\ Len(c.labels) = Len(c.values)
            /\ \A i, j \in 1..Len(c.labels) : c.labels[i] = c.labels[j] => i = j
            /\ \A i \in 1..Len(c.labels) :
                  /\ RowsOf(data, c.x_label, c.labels[i]) # {}
                  /\ c.values[i] = ContributionSum(data,
                                       RowsOf(data, c.x_label, c.labels[i]), c.y_label)

\* a bar chart has been answered for three rows of one region whose sales
\* are a number, a text and null: the bar is 5 + 1 + 0
MixedSalesSummed ==
    /\ ChartAnswered({"bar"})
    /\ Len(AnsweredRows) = 3
    /\ AnsweredChart.labels = <<"east">>
    /\ AnsweredChart.values = <<6>>
    /\ \E k \in 1..3 : AnsweredRows[k]["sales"] = VNull
    /\ \E k \in 1..3 : AnsweredRows[k]["sales"] = VStr("n/a")


\* the categories of a result: the string values of its text column
Categories(data, text_col) ==
    { PyStr(RowGet(data[k], text_col, VStr("Unknown"))) : k \in 1..Len(data) }
CategoryTotal(data, text_col, numeric_col, label) ==
    ContributionSum(data, RowsOf(data, text_col, label), numeric_col)
SeqRange(xs) == { xs[i] : i \in 1..Len(xs) }

\* C23: a bar chart has as many values as labels and at most 15 of them;
\* when the result has at most 15 categories the labels are exactly the
\* categories; when it has more, the labels are 15 of the categories (no
\* label is made up for the rest) and no category left out has an
\* aggregated value above that of a category kept
TopCategoriesKept ==
    ChartAnswered({"bar"}) =>
        LET c == AnsweredChart
            data == AnsweredRows
            cats == Categories(data, c.x_label)
            kept == SeqRange(c.labels)
        IN  /\ Len(c.labels) = Len(c.values)
            /\ Len(c.labels) <= max_categories
            /\ Cardinality(kept) = Len(c.labels)
            /\ kept \subseteq cats
            /\ Cardinality(cats) <= max_categories => kept = cats
            /\ Cardinality(cats) > max_categories =>
                  /\ Len(c.labels) = max_categories
                  /\ \A k \in kept : \A dropped \in cats \ kept :
                        CategoryTotal(data, c.x_label, c.y_label, dropped)
                            <= CategoryTotal(data, c.x_label, c.y_label, k)

\* a bar chart has been answered for a result of 17 categories: 15 labels,
\* and the first category met is among those left out
SeventeenCutToFifteen ==
    /\ ChartAnswered({"bar"})
    /\ Cardinality(Categories(AnsweredRows, AnsweredChart.x_label)) = 17
    /\ Len(AnsweredChart.labels) = 15
    /\ "c1" \notin SeqRange(AnsweredChart.labels)
    /\ "c17" \in SeqRange(AnsweredChart.labels)


\* what the claim has for one cell of a scatter chart: its number, 0 for
\* null and for a value that is no number
Coordinate(row, col) ==
    LET value == RowGet(row, col, VInt(0)) IN
    CASE value.t \in {"int", "bool"} -> value.n
      [] value.t = "str" /\ ~IsNone(ParseInt(value.s)) -> Get(ParseInt(value.s))
      [] OTHER -> 0

\* C24 (as stated): in a scatter chart the point of every row has, as x and
\* as y, the number of the row's own cell in the x and in the y column, and
\* 0 only where that cell is null or no number.  Violated: one cell that is
\* no number makes both coordinates of the row 0.
ScatterCoercesIndependently ==
    ChartAnswered({"scatter"}) =>
        LET c == AnsweredChart
            data == AnsweredRows
        IN  /\ Len(c.x_values) = Len(data)
            /\ Len(c.y_values) = Len(data)
            /\ \A k \in 1..Len(data) :
                  /\ c.x_values[k] = Coordinate(data[k], c.x_label)
                  /\ c.y_values[k] = Coordinate(data[k], c.y_label)

(***************************************************************************)
(* Properties of the reply parser.                                         *)
(***************************************************************************)
\* the queries whose completion reply has been parsed
Parsed == { r \in Queries : ~IsNone(r.reply) /\ ~IsNone(r.sql) }
\* the text _parse_sql_response is given
ParsedContent(r) == Strip(Get(r.reply))
HasFence(content) == Contains(content, Fence)
HasMarkers(content) ==
    Contains(Upper(content), "SQL:") \/ Contains(Upper(content), "EXPLANATION:")

\* C25 (as stated): a reply with neither a fenced block nor the SQL: and
\* EXPLANATION: markers yields the whole reply text as the SQL.  Violated:
\* such a reply yields the empty SQL text.
PlainReplyIsTheSql ==
    \A r \in Parsed :
        ~HasFence(ParsedContent(r)) /\ ~HasMarkers(ParsedContent(r))
            => Get(r.sql).query = ParsedContent(r)

\* what the parser does with such a reply: the SQL is empty and the
\* explanation is the placeholder
PlainReplyIsEmptySql ==
    \A r \in Parsed :
        ~HasFence(ParsedContent(r)) /\ ~HasMarkers(ParsedContent(r))
            => /\ Get(r.sql).query = ""
               /\ Get(r.sql).explanation = "SQL query generated successfully"

(***************************************************************************)
(* Properties of the dataset endpoint.                                     *)
(***************************************************************************)
\* the requests in flight and the one just answered
Requests ==
    { req[p] : p \in { q \in Procs : req[q].pc # "idle" } }
        \cup (IF IsNone(out) THEN {} ELSE {Get(out)})
\* the functions that post a native query to /api/dataset
DatasetOps == {"execute_sql_query", "get_sample_data"}
DatasetTexts(r) == UNION { Sent(r, op) : op \in DatasetOps }

\* C26 (as stated): every SQL text posted to the dataset endpoint, by the
\* query pipeline, by its sampling loop or by the table-sample route, is a
\* text validate_sql_safety accepts.  Violated: the sampling query is built
\* from the table name and sent without being checked, and the route takes
\* the table name from the caller.
DatasetTextsAccepted ==
    \A r \in Requests : \A text \in DatasetTexts(r) : validate_sql_safety(text)[1]

\* the texts of the pipeline's own executions are the ones found safe, and
\* no sampling text has been through the validator
OnlyExecutionsValidated ==
    \A r \in Requests :
        /\ Sent(r, "execute_sql_query") \subseteq r.accepted
        /\ Sent(r, "get_sample_data") \cap Validated(r) = {}

(***************************************************************************)
(* Properties of the pipeline beside a logout.                             *)
(***************************************************************************)
\* the call the step has added to the calls of the request in slot p
IssuesCall(p) ==
    /\ req'[p].pc # "idle"
    /\ Len(req'[p].calls) > (IF req[p].pc = "idle" THEN 0 ELSE Len(req[p].calls))
IssuedCall(p) == req'[p].calls[Len(req'[p].calls)]

\* C27 (as stated): once logout has returned True for a token, no step
\* issues a call to the BI platform with the handle of that token's session
\* (a request carries the handle of the session its own token named).
\* Violated: a pipeline that passed get_current_user before the logout goes
\* on with the metabase_session_id it holds.
NoCallAfterLogout ==
    [][\A p \in Procs :
          IssuesCall(p) /\ IssuedCall(p).svc = "metabase"
              => /\ IssuedCall(p).handle = Handle(req'[p])
                 /\ req'[p].token \notin loggedOut]_vars

(***************************************************************************)
(* Properties of concurrent logouts.                                       *)
(***************************************************************************)
\* the step sends the response of a logout call that returned True
LogoutReturnsTrue ==
    /\ \E p \in Procs : req[p].pc = "logout_delete" /\ req'[p].pc = "idle"
    /\ ~IsNone(out')
    /\ Get(out').kind = "logout"
    /\ Get(out').ret = Some(TRUE)

\* C28 (as stated): for one session entry at most one logout call returns
\* True, however logout, validate and cleanup calls interleave: a logout
\* call returns True only for a token no earlier call has returned True for.
\* Violated: two calls that both read the entry before either deletes it
\* both return True.
AtMostOneLogoutTrue ==
    [][LogoutReturnsTrue => Get(out').token \notin loggedOut]_vars

(***************************************************************************)
(* Properties of the expiry boundary.                                      *)
(***************************************************************************)
\* C29 (as stated): at any time, the same entries of the store are valid
\* for validate_session, counted by get_active_sessions_count and kept by
\* cleanup_expired_sessions, the time that equals expires_at included.
\* Violated: at now = expires_at validate_session accepts an entry that is
\* not counted and that the cleanup removes.
SameExpiryBoundary ==
    \A k \in DOMAIN sessions :
        LET valid == ~IsNone(validate_session(sessions, k, now).result)
            counted == k \in active_sessions(sessions, now)
            kept == k \in DOMAIN cleanup_expired_sessions(sessions, now)
        IN  valid = counted /\ counted = kept

\* the count and the cleanup agree with each other at every time
CountAndCleanupAgree ==
    \A k \in DOMAIN sessions :
        k \in active_sessions(sessions, now)
            <=> k \in DOMAIN cleanup_expired_sessions(sessions, now)

(***************************************************************************)
(* Properties of the response shape.                                       *)
(***************************************************************************)
\* the values of QueryType
QueryType == {"table", "chart", "text", "error"}

\* C30: every ChatResponse process_chat_query sends has query_type chart
\* exactly when it carries a chart, query_type error exactly when it carries
\* an error_message, and then neither result nor chart, and query_type table
\* or chart exactly when it carries a result and no error_message; its
\* query_type is never text
ResponseShapeConsistent ==
    \A r \in Queries :
        r.pc = "done" /\ ~IsNone(r.chat) =>
            LET c == Get(r.chat) IN
            /\ c.query_type \in QueryType \ {"text"}
            /\ c.query_type = "chart" <=> ~IsNone(c.chart)
            /\ c.query_type = "error" <=> ~IsNone(c.error_message)
            /\ c.query_type = "error" => IsNone(c.result) /\ IsNone(c.chart)
            /\ c.query_type \in {"table", "chart"}
                   <=> (~IsNone(c.result) /\ IsNone(c.error_message))

\* a bar chart was suggested for a result without rows: the response is a
\* table with the result and without a chart
EmptyResultShapedAsTable ==
    /\ Done("query")
    /\ ~IsNone(Get(out).chat)
    /\ ~IsNone(Get(out).suggestion)
    /\ ~IsNone(suggest_visualization(Reply(None, Get(Get(out).suggestion))))
    /\ Get(Get(out).chat).query_type = "table"
    /\ IsNone(Get(Get(out).chat).chart)
    /\ ~IsNone(Get(Get(out).chat).result)
    /\ Get(Get(Get(out).chat).result).row_count = 0

====
